---------------------------- MODULE Spec2Model ----------------------------
(***************************************************************************)
(* A model of paperfig's figure orchestrator (src/src/paperfig/figure.py): *)
(* the Fig class that loads and validates a JSON specification, resolves   *)
(* a renderer for every figure type, renders the figures one after the     *)
(* other, composes "multi" figures in a grid and concatenates the pages.   *)
(***************************************************************************)
EXTENDS Integers, Sequences, FiniteSets, TLC

VARIABLES
    file,       \* content of the JSON spec file: a token sequence, or Missing
    list,       \* Fig.list: the in-memory spec tree (a JSON value)
    pc,         \* where the instance is: "new", "dead", "idle", "top", "multi", "finish"
    err,        \* the exception the last operation ended with, or NoErr
    function,   \* Fig.function: explicitly registered renderers, type name -> renderer
    eps,        \* Fig._entry_point_renderers: not loaded yet, or name -> renderer
    env,        \* the Python environment: the installed entry points of the group
    fs,         \* files that exist in the output directory
    result,     \* Fig.result: the ResultsMap, figure id -> returned value
    target,     \* create_pdf's index_argument (None for a full build)
    pos,        \* create_pdf's position in self.list.items()
    fig_files,  \* create_pdf's ordered page list
    sub,        \* multi()'s frame: parent id, position, local result and page list
    calls,      \* history of the current build: collaborator calls, in order
    hist        \* history of the instance: counters and the trees seen by load/save

vars == <<file, list, pc, err, function, eps, env, fs, result, target, pos,
          fig_files, sub, calls, hist>>

-----------------------------------------------------------------------------
(* JSON values as Python's json module holds them in memory.  Every value  *)
(* is a record of one shape: k is the kind, s the payload of a string, n   *)
(* the payload of an int (or 0/1 of a bool), items the members of an       *)
(* object (key, val) or the elements of a list (key = "").                 *)

JNull == [k |-> "null", s |-> "", n |-> 0, items |-> <<>>]

JStr(x) == [k |-> "str", s |-> x, n |-> 0, items |-> <<>>]

JInt(x) == [k |-> "int", s |-> "", n |-> x, items |-> <<>>]

JBool(b) == [k |-> "bool", s |-> "", n |-> IF b THEN 1 ELSE 0, items |-> <<>>]

JObj(it) == [k |-> "obj", s |-> "", n |-> 0, items |-> it]

JList(it) == [k |-> "list", s |-> "", n |-> 0, items |-> it]

Pair(key, val) == [key |-> key, val |-> val]

\* isinstance(v, dict), isinstance(v, str), isinstance(v, int): bool is an int
IsDict(v) == v.k = "obj"

IsStr(v) == v.k = "str"

IsInt(v) == v.k \in {"int", "bool"}

\* key in d
Has(d, key) == \E i \in 1..Len(d.items) : d.items[i].key = key

\* d.get(key): None (the value JSON null loads as) when the key is absent
Get(d, key) ==
    IF IsDict(d) /\ Has(d, key)
    THEN d.items[CHOOSE i \in 1..Len(d.items) : d.items[i].key = key].val
    ELSE JNull

\* d[key] = val on an insertion-ordered dict: an existing key keeps its place
DictSet(items, key, val) ==
    IF \E i \in 1..Len(items) : items[i].key = key
    THEN [i \in 1..Len(items) |->
             IF items[i].key = key THEN Pair(key, val) ELSE items[i]]
    ELSE Append(items, Pair(key, val))

-----------------------------------------------------------------------------
(* The text of a JSON file, as the sequence of its tokens (white space and  *)
(* indentation carry no information and are left out).                      *)

Tok(t) == [t |-> t, s |-> "", n |-> 0]

TStr(x) == [t |-> "str", s |-> x, n |-> 0]

TInt(x) == [t |-> "int", s |-> "", n |-> x]

Missing == <<Tok("<no file>")>>

\* a string holding a lone surrogate: json.load accepts its escape "\ud800",
\* the utf-8 codec of the file opened for writing cannot encode it
LoneSurrogate == "<U+D800>"

Encodable(x) == x # LoneSurrogate

RECURSIVE Encode(_)
RECURSIVE EncodeItems(_, _, _)

\* json.dump's chunks for the members/elements from position i on
EncodeItems(v, i, first) ==
    IF i > Len(v.items) THEN <<>>
    ELSE (IF first THEN <<>> ELSE <<Tok(",")>>)
         \o (IF IsDict(v) THEN <<TStr(v.items[i].key), Tok(":")>> ELSE <<>>)
         \o Encode(v.items[i].val)
         \o EncodeItems(v, i + 1, FALSE)

\* json.dump(obj, f, indent=2, ensure_ascii=False): insertion order, every member
Encode(v) ==
    CASE v.k = "null" -> <<Tok("null")>>
      [] v.k = "bool" -> <<Tok(IF v.n = 1 THEN "true" ELSE "false")>>
      [] v.k = "int"  -> <<TInt(v.n)>>
      [] v.k = "str"  -> <<TStr(v.s)>>
      [] v.k = "list" -> <<Tok("[")>> \o EncodeItems(v, 1, TRUE) \o <<Tok("]")>>
      [] v.k = "obj"  -> <<Tok("{")>> \o EncodeItems(v, 1, TRUE) \o <<Tok("}")>>

\* what reaches the file: the chunks before the first one utf-8 cannot encode
RECURSIVE Written(_, _)
Written(toks, i) ==
    IF i > Len(toks) \/ (toks[i].t = "str" /\ ~Encodable(toks[i].s)) THEN <<>>
    ELSE <<toks[i]>> \o Written(toks, i + 1)

AllEncodable(toks) == \A i \in 1..Len(toks) : toks[i].t = "str" => Encodable(toks[i].s)

-----------------------------------------------------------------------------
(* json.load: a recursive-descent parse of the token sequence.  A result    *)
(* is [ok, v, nxt]: whether a value was read, the value, the next position. *)

PFail == [ok |-> FALSE, v |-> JNull, nxt |-> 0]

POk(v, nxt) == [ok |-> TRUE, v |-> v, nxt |-> nxt]

At(toks, i) == IF i <= Len(toks) THEN toks[i] ELSE Tok("<eof>")

RECURSIVE ParseValue(_, _)
RECURSIVE ParseMembers(_, _, _)
RECURSIVE ParseElements(_, _, _)

\* after '{' or ',': "key" : value, then ',' or '}'; a repeated key overwrites
ParseMembers(toks, i, acc) ==
    IF At(toks, i).t # "str" \/ At(toks, i + 1).t # ":" THEN PFail
    ELSE LET r == ParseValue(toks, i + 2) IN
         IF ~r.ok THEN PFail
         ELSE LET acc2 == DictSet(acc, toks[i].s, r.v) IN
              CASE At(toks, r.nxt).t = "}" -> POk(JObj(acc2), r.nxt + 1)
                [] At(toks, r.nxt).t = "," -> ParseMembers(toks, r.nxt + 1, acc2)
                [] OTHER -> PFail

ParseElements(toks, i, acc) ==
    LET r == ParseValue(toks, i) IN
    IF ~r.ok THEN PFail
    ELSE LET acc2 == Append(acc, Pair("", r.v)) IN
         CASE At(toks, r.nxt).t = "]" -> POk(JList(acc2), r.nxt + 1)
           [] At(toks, r.nxt).t = "," -> ParseElements(toks, r.nxt + 1, acc2)
           [] OTHER -> PFail

ParseValue(toks, i) ==
    LET t == At(toks, i) IN
    CASE t.t = "null"  -> POk(JNull, i + 1)
      [] t.t = "true"  -> POk(JBool(TRUE), i + 1)
      [] t.t = "false" -> POk(JBool(FALSE), i + 1)
      [] t.t = "int"   -> POk(JInt(t.n), i + 1)
      [] t.t = "str"   -> POk(JStr(t.s), i + 1)
      [] t.t = "{"     -> IF At(toks, i + 1).t = "}" THEN POk(JObj(<<>>), i + 2)
                          ELSE ParseMembers(toks, i + 1, <<>>)
      [] t.t = "["     -> IF At(toks, i + 1).t = "]" THEN POk(JList(<<>>), i + 2)
                          ELSE ParseElements(toks, i + 1, <<>>)
      [] OTHER         -> PFail

\* json.load(f): one value and nothing after it, else JSONDecodeError
JsonLoad(toks) ==
    LET r == ParseValue(toks, 1) IN
    IF r.ok /\ r.nxt = Len(toks) + 1 THEN r ELSE PFail

-----------------------------------------------------------------------------
(* Exceptions.  cls is the exception class; msg names the message of the   *)
(* source; id, sub, field, type and path are what the message text         *)
(* interpolates (path: the id inside the file name fig<id>.pdf), NoName    *)
(* where the message does not carry that piece.                            *)

NoName == "<none>"

Exc(cls, msg, id, child, field, type, path) ==
    [cls |-> cls, msg |-> msg, id |-> id, sub |-> child, field |-> field,
     type |-> type, path |-> path]

NoErr == Exc("none", "", NoName, NoName, NoName, NoName, NoName)

FigError(msg, id, child, field) ==
    Exc("FigError", msg, id, child, field, NoName, NoName)

-----------------------------------------------------------------------------
(* Fig._validate_json                                                      *)

RECURSIVE ValidateSubFigures(_, _, _)
\* for k, sub in figs.items(): the first child that is no object or has no string type
ValidateSubFigures(idx, figs, j) ==
    IF j > Len(figs.items) THEN NoErr
    ELSE LET k == figs.items[j].key
             child == figs.items[j].val IN
         IF ~IsDict(child) THEN FigError("sub-figure must be object", idx, k, NoName)
         ELSE IF ~IsStr(Get(child, "type"))
         THEN FigError("sub-figure must have string 'type'", idx, k, "type")
         ELSE ValidateSubFigures(idx, figs, j + 1)

\* a validator that looks at the type of an entry and at nothing else
ValidateNodeTypeOnly(idx, node) ==
    IF ~IsDict(node) THEN FigError("spec must be an object", idx, NoName, NoName)
    ELSE IF ~IsStr(Get(node, "type"))
    THEN FigError("must have a string 'type' field", idx, NoName, "type")
    ELSE NoErr

\* the body of the loop over self.list.items() for one entry
ValidateNode(idx, node) ==
    IF ~IsDict(node) THEN FigError("spec must be an object", idx, NoName, NoName)
    ELSE LET t == Get(node, "type") IN
    IF ~IsStr(t) THEN FigError("must have a string 'type' field", idx, NoName, "type")
    ELSE IF t.s # "multi" THEN NoErr
    ELSE LET figs == Get(node, "figures") IN
    IF ~IsDict(figs) THEN FigError("multi requires 'figures' object", idx, NoName, "figures")
    ELSE LET e == ValidateSubFigures(idx, figs, 1) IN
    IF e # NoErr THEN e
    ELSE IF ~Has(node, "row") THEN FigError("multi requires key", idx, NoName, "row")
    ELSE IF ~Has(node, "column") THEN FigError("multi requires key", idx, NoName, "column")
    ELSE NoErr

RECURSIVE ValidateEntriesLastFirst(_, _)
\* a validator that reports the last offending entry
ValidateEntriesLastFirst(tree, i) ==
    IF i > Len(tree.items) THEN NoErr
    ELSE LET e == ValidateEntriesLastFirst(tree, i + 1) IN
         IF e # NoErr THEN e ELSE ValidateNode(tree.items[i].key, tree.items[i].val)

RECURSIVE ValidateEntries(_, _)
ValidateEntries(tree, i) ==
    IF i > Len(tree.items) THEN NoErr
    ELSE LET e == ValidateNode(tree.items[i].key, tree.items[i].val) IN
         IF e # NoErr THEN e ELSE ValidateEntries(tree, i + 1)

\* NoErr when the tree is accepted, else the FigError raised
ValidateJson(tree) ==
    IF ~IsDict(tree) THEN FigError("Root of JSON must be an object", NoName, NoName, NoName)
    ELSE ValidateEntries(tree, 1)

-----------------------------------------------------------------------------
(* Bounds of the model and the inputs drawn within them.                   *)

MaxNodes == 3       \* figure nodes (entries and children) of a file that is loaded

MaxFileNodes == 2   \* top-level entries of a file that is loaded, edited and saved

MaxEdits == 1       \* in-memory edits between a load and a save

\* ids of top-level entries and of children, by position
TopId == <<"1", "2", "3", "4", "5">>

ChildId == <<"2a", "2b", "2c", "2d", "2e">>

Keyed(nodes, ids) == JObj([i \in 1..Len(nodes) |-> Pair(ids[i], nodes[i])])

Simple(t) == JObj(<<Pair("type", JStr(t))>>)

\* entries that are no multi figure: no object, no type, a type that is no string, a figure
LeafKinds ==
    {JStr("x"), JObj(<<Pair("title", JStr("t"))>>), JObj(<<Pair("type", JInt(1))>>),
     Simple("a")}

ChildKinds == {JStr("x"), JObj(<<Pair("title", JStr("t"))>>), Simple("a"), Simple("multi")}

\* the 'row' and 'column' members of a multi entry: both, one missing, one no integer
GridKinds ==
    {<<Pair("row", JInt(1)), Pair("column", JInt(2))>>,
     <<Pair("column", JInt(2))>>,
     <<Pair("row", JInt(1))>>,
     <<Pair("row", JStr("x")), Pair("column", JInt(2))>>}

MultiNode(grid, figs) == JObj(<<Pair("type", JStr("multi"))>> \o grid \o figs)

RECURSIVE SeqsOf(_, _)
\* the sequences of length n over S
SeqsOf(S, n) ==
    IF n = 0 THEN {<<>>}
    ELSE {<<x>> \o r : x \in S, r \in SeqsOf(S, n - 1)}

\* the nodes made of w figure nodes: an entry and its w-1 children
NodesOfWeight(w) ==
    IF w = 1
    THEN LeafKinds
         \cup {MultiNode(<<Pair("row", JInt(1)), Pair("column", JInt(2))>>, f) :
                  f \in {<<>>, <<Pair("figures", JList(<<>>))>>}}
         \cup {MultiNode(g, <<Pair("figures", JObj(<<>>))>>) : g \in GridKinds}
    ELSE {MultiNode(g, <<Pair("figures", Keyed(c, ChildId))>>) :
             g \in GridKinds, c \in SeqsOf(ChildKinds, w - 1)}

\* the figure nodes of a tree: its entries and the children of their 'figures'
Weight(tree) ==
    LET W[i \in 0..Len(tree.items)] ==
            IF i = 0 THEN 0
            ELSE W[i - 1] + 1 + Len(Get(tree.items[i].val, "figures").items)
    IN W[Len(tree.items)]

\* texts json.load rejects: nothing, or a document cut short or with text after it
Malformed == {<<>>, <<Tok("{")>>, <<Tok("{"), TStr("1"), Tok(":")>>, <<Tok("{"), Tok("}"), Tok("}")>>}

\* the files an author starts from: none, a malformed one, a root that is no
\* object, the empty object
LoadDocs ==
    {Missing} \cup Malformed \cup {Encode(t) : t \in {JList(<<>>), JStr("x"), JNull, JObj(<<>>)}}

-----------------------------------------------------------------------------
(* Python dicts whose order nothing reads (Fig.function, Fig.result, the   *)
(* discovered plugins): sets of (key, val) with one val for a key.         *)

HasKey(d, key) == \E p \in d : p.key = key

Lookup(d, key) == (CHOOSE p \in d : p.key = key).val

KeySet(d) == {p.key : p \in d}

Range(q) == {q[i] : i \in 1..Len(q)}

\* d[key] = val
Put(d, key, val) == {p \in d : p.key # key} \cup {Pair(key, val)}

-----------------------------------------------------------------------------
(* Renderers and where they come from.  A renderer is named by its source  *)
(* and its name there: a callable the caller registers, the object an      *)
(* entry point loads, an attribute of an importable module.                *)

Renderer(src, name) == [src |-> src, name |-> name]

NoRenderer == Renderer("none", "")

\* the entry points installed under the group "paperfig.renderers": ep.load()
\* returns a callable, returns something that is not callable, or raises
EntryPoint(name, kind) == [name |-> name, kind |-> kind]

NoPlugins == [broken |-> FALSE, eps |-> {}]

\* importlib.import_module(mod_name): the attributes of the module, or ImportError
Importable(mod_name) == mod_name = "m"

\* getattr(mod, func_name) of module "m": f is a function, g is a constant
ModuleAttr(func_name) ==
    CASE func_name = "f" -> "callable"
      [] func_name = "g" -> "not callable"
      [] OTHER -> "missing"

\* ":" in type_name
HasSeparator(type_name) == type_name \in {"m:f", "m:g", "m:h", "x:f", "m:f:z"}

\* type_name.split(":", 1): the text before the first separator and the text after it
SplitAtFirst(type_name) ==
    CASE type_name = "m:f"   -> <<"m", "f">>
      [] type_name = "m:g"   -> <<"m", "g">>
      [] type_name = "m:h"   -> <<"m", "h">>
      [] type_name = "x:f"   -> <<"x", "f">>
      [] type_name = "m:f:z" -> <<"m", "f:z">>

\* a memo that is trusted only when it holds something
LoadEntryPointsUnlessEmpty(memo, e) ==
    IF memo.loaded /\ memo.map # {} THEN memo
    ELSE [loaded |-> TRUE, n |-> memo.n + 1,
          map |-> IF e.broken THEN {}
                  ELSE {Pair(ep.name, Renderer("entry point", ep.name)) :
                           ep \in {x \in e.eps : x.kind = "callable"}}]

\* Fig._load_entry_point_renderers: the memo if there is one, else the callables
\* the installed entry points load ({} when the enumeration raises)
LoadEntryPointRenderers(memo, e) ==
    IF memo.loaded THEN memo
    ELSE [loaded |-> TRUE, n |-> memo.n + 1,
          map |-> IF e.broken THEN {}
                  ELSE {Pair(ep.name, Renderer("entry point", ep.name)) :
                           ep \in {x \in e.eps : x.kind = "callable"}}]

\* an import that returns the attribute whatever it is
ImportAnyAttribute(type_name) ==
    LET mod_name == SplitAtFirst(type_name)[1]
        func_name == SplitAtFirst(type_name)[2] IN
    IF ~Importable(mod_name) \/ ModuleAttr(func_name) = "missing"
    THEN [r |-> NoRenderer,
          err |-> Exc("FigError", "Failed to import renderer", NoName, NoName, NoName,
                      type_name, NoName)]
    ELSE [r |-> Renderer("import", type_name), err |-> NoErr]

\* the third tier of _resolve_renderer: import the module, fetch the attribute
ImportRenderer(type_name) ==
    LET mod_name == SplitAtFirst(type_name)[1]
        func_name == SplitAtFirst(type_name)[2] IN
    IF ~Importable(mod_name) \/ ModuleAttr(func_name) = "missing"
    THEN [r |-> NoRenderer,
          err |-> Exc("FigError", "Failed to import renderer", NoName, NoName, NoName,
                      type_name, NoName)]
    ELSE IF ModuleAttr(func_name) = "callable"
    THEN [r |-> Renderer("import", type_name), err |-> NoErr]
    ELSE [r |-> NoRenderer, err |-> NoErr]

\* a resolver that asks the entry points before the registrations
ResolvePluginsFirst(type_name, registered, memo, e) ==
    LET found == LoadEntryPointRenderers(memo, e) IN
    IF HasKey(found.map, type_name)
    THEN [r |-> Lookup(found.map, type_name), err |-> NoErr, eps |-> found]
    ELSE IF HasKey(registered, type_name)
    THEN [r |-> Lookup(registered, type_name), err |-> NoErr, eps |-> found]
    ELSE IF HasSeparator(type_name)
    THEN [r |-> ImportRenderer(type_name).r, err |-> ImportRenderer(type_name).err,
          eps |-> found]
    ELSE [r |-> NoRenderer, err |-> NoErr, eps |-> found]

\* Fig._resolve_renderer: [r, err, eps]: the renderer (NoRenderer: None), the
\* FigError raised (NoErr: none), and the memo it leaves
ResolveRenderer(type_name, registered, memo, e) ==
    IF HasKey(registered, type_name)
    THEN [r |-> Lookup(registered, type_name), err |-> NoErr, eps |-> memo]
    ELSE LET found == LoadEntryPointRenderers(memo, e) IN
         IF HasKey(found.map, type_name)
         THEN [r |-> Lookup(found.map, type_name), err |-> NoErr, eps |-> found]
         ELSE IF HasSeparator(type_name)
         THEN [r |-> ImportRenderer(type_name).r, err |-> ImportRenderer(type_name).err,
               eps |-> found]
         ELSE [r |-> NoRenderer, err |-> NoErr, eps |-> found]

\* Fig.register
Register(type_name, renderer) ==
    /\ pc = "idle"
    /\ function' = Put(function, type_name, renderer)
    /\ hist' = [hist EXCEPT !.op = "register"]
    /\ UNCHANGED <<file, list, pc, err, eps, env, fs, result, target, pos, fig_files,
                   sub, calls>>

-----------------------------------------------------------------------------
(* The state after Fig.__init__ has set its attributes and before it calls *)
(* load_json: self.list does not exist yet.                                *)

NoList == [k |-> "unset", s |-> "", n |-> 0, items |-> <<>>]

None == NoName

NoSub == [parent |-> NoName, j |-> 0, result |-> {}, fig_files |-> <<>>]

\* op: the last operation; dirty: the tree was edited since it was loaded; valid:
\* the last load raised nothing; edits: how many edits there were; asked, got: the
\* type name of the last direct call of _resolve_renderer and what it returned
NoHist ==
    [dirty |-> FALSE, valid |-> FALSE, op |-> "", edits |-> 0, asked |-> NoName,
     got |-> NoRenderer]

\* self._entry_point_renderers = None
NotLoaded == [loaded |-> FALSE, map |-> {}, n |-> 0]

NewFig ==
    /\ list = NoList
    /\ pc = "new"
    /\ err = NoErr
    /\ function = {}
    /\ eps = NotLoaded
    /\ fs = {}
    /\ result = {}
    /\ target = None
    /\ pos = 0
    /\ fig_files = <<>>
    /\ sub = NoSub
    /\ calls = <<>>
    /\ hist = NoHist

BuildVars == <<function, eps, env, fs, result, target, pos, fig_files, sub, calls>>

-----------------------------------------------------------------------------
(* Fig.load_json and Fig.save_json                                         *)

\* the exception load_json ends with (NoErr: none) for the file content f
LoadError(f) ==
    IF f = Missing THEN FigError("JSON file does not exist", NoName, NoName, NoName)
    ELSE IF ~JsonLoad(f).ok THEN FigError("Failed to parse JSON", NoName, NoName, NoName)
    ELSE ValidateJson(JsonLoad(f).v)

\* a load that keeps the tree it had when the new one is rejected
LoadedListIfValid(f, old) ==
    IF f # Missing /\ JsonLoad(f).ok /\ ValidateJson(JsonLoad(f).v) = NoErr
    THEN JsonLoad(f).v ELSE old

\* self.list after load_json: assigned once json.load has returned, validated after
LoadedList(f, old) == IF f # Missing /\ JsonLoad(f).ok THEN JsonLoad(f).v ELSE old

LoadJson ==
    /\ list' = LoadedList(file, list)
    /\ err' = LoadError(file)
    /\ hist' = [hist EXCEPT !.op = IF hist.op = "save" THEN "load after save" ELSE "load",
                            !.dirty = IF list' = list THEN @ ELSE FALSE,
                            !.valid = (err' = NoErr)]
    /\ UNCHANGED <<file, BuildVars>>

\* Fig(json_filename): an exception of load_json leaves no instance behind
Construct ==
    /\ pc = "new"
    /\ LoadJson
    /\ pc' = IF err' = NoErr THEN "idle" ELSE "dead"

\* fig.load_json() on an existing instance: the exception goes to the caller
Reload ==
    /\ pc = "idle"
    /\ LoadJson
    /\ pc' = "idle"

\* before the file is loaded its author adds one more entry to it
WriteEntry ==
    /\ pc = "new"
    /\ file # Missing
    /\ JsonLoad(file).ok
    /\ IsDict(JsonLoad(file).v)
    /\ LET tree == JsonLoad(file).v IN
       \E w \in 1..(MaxNodes - Weight(tree)) : \E node \in NodesOfWeight(w) :
           file' = Encode(JObj(Append(tree.items, Pair(TopId[Len(tree.items) + 1], node))))
    /\ UNCHANGED <<list, pc, err, hist, BuildVars>>

InitLoad ==
    /\ file \in LoadDocs
    /\ env = NoPlugins
    /\ NewFig

NextLoad == WriteEntry \/ Construct

SpecLoad == InitLoad /\ [][NextLoad]_vars

-----------------------------------------------------------------------------
(* Loading, editing in memory and saving (SpecFile)                        *)

\* values of fields the schema does not know
FileKinds ==
    {Simple("a"),
     JObj(<<Pair("title", JStr("e-acute")),
            Pair("tags", JList(<<Pair("", JInt(1)), Pair("", JNull)>>)),
            Pair("opt", JObj(<<Pair("k", JBool(TRUE))>>)),
            Pair("type", JStr("a"))>>),
     JObj(<<Pair("title", JStr(LoneSurrogate)), Pair("type", JStr("a"))>>),
     JObj(<<Pair("note", JStr("n")), Pair("type", JStr("multi")), Pair("row", JInt(1)),
            Pair("column", JInt(2)),
            Pair("figures", Keyed(<<Simple("a"), Simple("a")>>, ChildId))>>)}

FileTrees == UNION {{Keyed(ns, TopId) : ns \in SeqsOf(FileKinds, n)} : n \in 0..MaxFileNodes}

\* the text of tree t with its first key written once more at the end
Repeated(t) == JObj(t.items \o <<Pair(t.items[1].key, Simple("b"))>>)

FileDocs ==
    {Encode(t) : t \in FileTrees}
    \cup {Encode(Repeated(t)) : t \in {u \in FileTrees : Len(u.items) > 0}}

\* the edits of a field: a new title, and a type that is no string
FieldEdits == {Pair("title", JStr("Modified Title")), Pair("type", JInt(7))}

\* fig.list[idx][field] = value
SetField(tree, i, field, value) ==
    JObj([tree.items EXCEPT ![i].val = JObj(DictSet(@.items, field, value))])

\* an edit of the tree by the caller: a field of an entry is set, or an entry is added
Edit ==
    /\ pc = "idle"
    /\ IsDict(list)
    /\ hist.edits < MaxEdits
    /\ \/ \E i \in 1..Len(list.items), e \in FieldEdits :
             /\ IsDict(list.items[i].val)
             /\ list' = SetField(list, i, e.key, e.val)
       \/ list' = JObj(DictSet(list.items, "9", Simple("a")))
    /\ hist' = [hist EXCEPT !.op = "edit", !.edits = @ + 1, !.dirty = TRUE]
    /\ UNCHANGED <<file, pc, err, BuildVars>>

\* save_json: json.dumps succeeds on every JSON value; open(..., "w") truncates the
\* file or raises OSError; json.dump writes chunk by chunk through the utf-8 codec
SaveJson ==
    /\ pc = "idle"
    /\ list # NoList
    /\ \E opened \in BOOLEAN :
          IF ~opened
          THEN /\ err' = FigError("Failed to write JSON", NoName, NoName, NoName)
               /\ file' = file
          ELSE IF AllEncodable(Encode(list))
          THEN /\ err' = NoErr
               /\ file' = Encode(list)
          ELSE /\ err' = Exc("UnicodeEncodeError", "surrogates not allowed",
                             NoName, NoName, NoName, NoName, NoName)
               /\ file' = Written(Encode(list), 1)
    /\ hist' = [hist EXCEPT !.op = IF err' = NoErr THEN "save"
                                   ELSE IF err'.cls = "FigError" THEN "save refused"
                                   ELSE "save failed"]
    /\ UNCHANGED <<list, pc, BuildVars>>

\* the file is removed by someone else
RemoveFile ==
    /\ pc = "idle"
    /\ file # Missing
    /\ file' = Missing
    /\ hist' = [hist EXCEPT !.op = "remove"]
    /\ UNCHANGED <<list, pc, err, BuildVars>>

InitFile ==
    /\ file \in FileDocs
    /\ env = NoPlugins
    /\ NewFig

NextFile == Construct \/ Edit \/ SaveJson \/ Reload \/ RemoveFile

SpecFile == InitFile /\ [][NextFile]_vars

-----------------------------------------------------------------------------
(* Loading again on an instance while the file changes under it            *)
(* (SpecReload): someone else removes the file, cuts it short, or writes   *)
(* another document, valid or not, and the caller calls load_json().       *)

ReloadTrees ==
    {JObj(<<>>),
     JObj(<<Pair("1", Simple("a"))>>),
     JObj(<<Pair("1", Simple("a")), Pair("2", Simple("a"))>>),
     JList(<<>>),
     JStr("x"),
     JObj(<<Pair("1", JObj(<<Pair("title", JStr("t"))>>))>>),
     JObj(<<Pair("1", Simple("a")),
            Pair("2", MultiNode(<<Pair("row", JInt(1))>>,
                                <<Pair("figures", JObj(<<>>))>>))>>)}

ReloadDocs == {Missing} \cup Malformed \cup {Encode(t) : t \in ReloadTrees}

\* the file is written anew, or removed, by someone else
RewriteFile ==
    /\ pc = "idle"
    /\ \E f \in ReloadDocs \ {file} : file' = f
    /\ hist' = [hist EXCEPT !.op = "rewrite"]
    /\ UNCHANGED <<list, pc, err, BuildVars>>

InitReload ==
    /\ file \in ReloadDocs
    /\ env = NoPlugins
    /\ NewFig

NextReload == Construct \/ RewriteFile \/ Reload

SpecReload == InitReload /\ [][NextReload]_vars

-----------------------------------------------------------------------------
(* Fig.create_pdf and Fig.multi, one step per entry, per child and per     *)
(* concatenation.  A renderer and the concatenation collaborator are       *)
(* external: a call writes its file and returns, returns without writing,  *)
(* or raises.                                                              *)

Outcomes == {"writes", "silent", "raises"}

\* self.fig_dir / f"fig{index}.pdf" and self.fig_dir / self.pdf_filename
FigPdf(index) == <<"fig", index>>

OutFile == <<"out", "figures.pdf">>

\* a build that takes every request for the whole document
TruthyNever(x) == FALSE

\* Python's truth value of create_pdf's index argument: None and "" are false
Truthy(x) == x # None /\ x # ""

\* one call of a renderer or of concat_pdf_pages, as the build history keeps it;
\* at: the position of the entry and of the child (0: the entry itself) it is
\* for; the final concatenation is at the position after the last entry
RenderCall(index, renderer, outcome, at) ==
    [op |-> "render", id |-> index, by |-> renderer, outcome |-> outcome, at |-> at,
     input_files |-> <<>>, output_file |-> FigPdf(index), col |-> 0, row |-> 0]

ConcatCall(input_files, output_file, col, row, outcome, at) ==
    [op |-> "concat", id |-> NoName, by |-> NoRenderer, outcome |-> outcome, at |-> at,
     input_files |-> input_files, output_file |-> output_file, col |-> col, row |-> row]

\* a check of the artifact that every path passes
ExistsAlways(path, files) == TRUE

\* expected.exists(), parent_pdf.exists()
Exists(path, files) == path \in files

\* a page list that is never found empty
NoPagesNever(pages) == FALSE

\* not fig_files
NoPages(pages) == pages = <<>>

\* the children taken from the last to the first
ChildAtReversed(figs, j) == figs.items[Len(figs.items) + 1 - j]

\* for index, data in figs.items(): the j-th child
ChildAt(figs, j) == figs.items[j]

\* the opaque value a renderer returns: told apart by renderer, figure and call
Returned(renderer, index, n) == [by |-> renderer, id |-> index, n |-> n]

\* an error that is noted while the build goes on
RaiseAndGoOn(e) == err' = e /\ pc' = pc

\* an exception leaves create_pdf
Raise(e) == err' = e /\ pc' = "idle"

RendererRaised == Exc("RendererError", "raised by the renderer", NoName, NoName, NoName, NoName, NoName)

AttributeError == Exc("AttributeError", "object has no attribute", NoName, NoName, NoName, NoName, NoName)

\* a merge that keeps the entry that is already there
MergeKeepsFirst(into, from) == into \cup {p \in from : ~HasKey(into, p.key)}

\* a merge that drops what multi() returned
MergeNothing(into, from) == into

\* for k, v in result_multi.items(): self.result[k] = v
Merge(into, from) == {p \in into : ~HasKey(from, p.key)} \cup from

\* the results of the build before are kept
KeptResult(old) == old

\* self.result = {}
EmptiedResult(old) == {}

\* create_pdf up to its loop: the output directory is made (the model's file
\* system lets mkdir succeed), self.result and the page list are emptied
CreatePdf(index_argument) ==
    /\ pc = "idle"
    /\ list # NoList
    /\ target' = index_argument
    /\ calls' = <<>>
    /\ hist' = [hist EXCEPT !.op = "build"]
    /\ result' = EmptiedResult(result)
    /\ fig_files' = <<>>
    /\ pos' = 1
    /\ sub' = NoSub
    /\ IF IsDict(list) THEN pc' = "top" /\ err' = NoErr
       ELSE Raise(AttributeError)
    /\ UNCHANGED <<file, list, function, eps, env, fs>>

\* the first lines of multi(): 'figures' is an object, 'row' and 'column' are integers
EnterMulti(index, data) ==
    IF ~IsDict(Get(data, "figures"))
    THEN /\ Raise(FigError("multi requires 'figures' object", index, NoName, "figures"))
         /\ UNCHANGED <<pos, eps, fs, result, fig_files, sub, calls>>
    ELSE IF ~IsInt(Get(data, "row")) \/ ~IsInt(Get(data, "column"))
    THEN /\ Raise(FigError("'row' and 'column' must be integers", index, NoName, "row, column"))
         /\ UNCHANGED <<pos, eps, fs, result, fig_files, sub, calls>>
    ELSE /\ sub' = [parent |-> index, j |-> 1, result |-> {}, fig_files |-> <<>>]
         /\ pc' = "multi"
         /\ UNCHANGED <<pos, err, eps, fs, result, fig_files, calls>>

\* a simple entry: resolve, render, keep the result, require the artifact
RenderEntry(index, t) ==
    LET res == ResolveRenderer(t, function, eps, env) IN
    /\ eps' = res.eps
    /\ IF res.err # NoErr
       THEN Raise(res.err) /\ UNCHANGED <<pos, fs, result, fig_files, calls>>
       ELSE IF res.r = NoRenderer
       THEN /\ Raise(Exc("FigError", "type not defined/resolvable for figure",
                         index, NoName, NoName, t, NoName))
            /\ UNCHANGED <<pos, fs, result, fig_files, calls>>
       ELSE \E outcome \in Outcomes :
            /\ calls' = Append(calls, RenderCall(index, res.r, outcome, <<pos, 0>>))
            /\ fs' = IF outcome = "writes" THEN fs \cup {FigPdf(index)} ELSE fs
            /\ IF outcome = "raises"
               THEN Raise(RendererRaised) /\ UNCHANGED <<pos, result, fig_files>>
               ELSE /\ result' = Put(result, index, Returned(res.r, index, Len(calls) + 1))
                    /\ IF Exists(FigPdf(index), fs')
                       THEN /\ fig_files' = Append(fig_files, FigPdf(index))
                            /\ pos' = pos + 1
                            /\ UNCHANGED <<pc, err>>
                       ELSE /\ Raise(Exc("FigError", "Renderer completed but expected file not found",
                                         NoName, NoName, NoName, NoName, index))
                            /\ UNCHANGED <<pos, fig_files>>
    /\ UNCHANGED sub

\* one round of create_pdf's loop over self.list.items()
TopEntry ==
    /\ pc = "top"
    /\ pos <= Len(list.items)
    /\ LET index == list.items[pos].key
           data == list.items[pos].val
           t == Get(data, "type")
       IN  IF Truthy(target) /\ target # index
           THEN /\ pos' = pos + 1
                /\ UNCHANGED <<pc, err, eps, fs, result, fig_files, sub, calls>>
           ELSE IF ~IsDict(data)
           THEN /\ Raise(AttributeError)
                /\ UNCHANGED <<pos, eps, fs, result, fig_files, sub, calls>>
           ELSE IF ~IsStr(t)
           THEN /\ Raise(FigError("has invalid 'type'", index, NoName, "type"))
                /\ UNCHANGED <<pos, eps, fs, result, fig_files, sub, calls>>
           ELSE IF t.s = "multi"
           THEN EnterMulti(index, data)
           ELSE RenderEntry(index, t.s)
    /\ UNCHANGED <<file, list, function, env, target, hist>>

\* children's values that go straight into the results of the instance
SharedWhileComposing(global, local) == Merge(global, local)

\* result[index] = res in multi(): 'result' is the dict of the call, and
\* self.result is as it was while the children are rendered
WhileComposing(global, local) == global

\* one round of multi()'s loop over figs.items()
MultiChild ==
    /\ pc = "multi"
    /\ LET figs == Get(list.items[pos].val, "figures") IN
       /\ sub.j <= Len(figs.items)
       /\ LET index == ChildAt(figs, sub.j).key
              data == ChildAt(figs, sub.j).val
              t == Get(data, "type")
              res == ResolveRenderer(t.s, function, eps, env)
          IN  IF ~IsDict(data)
              THEN Raise(AttributeError) /\ UNCHANGED <<eps, fs, sub, calls>>
              ELSE IF ~IsStr(t)
              THEN /\ Raise(FigError("sub-figure has invalid 'type'", sub.parent, index, "type"))
                   /\ UNCHANGED <<eps, fs, sub, calls>>
              ELSE /\ eps' = res.eps
                   /\ IF res.err # NoErr
                      THEN Raise(res.err) /\ UNCHANGED <<fs, sub, calls>>
                      ELSE IF res.r = NoRenderer
                      THEN /\ Raise(Exc("FigError", "type not defined in multi()",
                                        NoName, index, NoName, t.s, NoName))
                           /\ UNCHANGED <<fs, sub, calls>>
                      ELSE \E outcome \in Outcomes :
                           /\ calls' = Append(calls, RenderCall(index, res.r, outcome,
                                                                  <<pos, sub.j>>))
                           /\ fs' = IF outcome = "writes" THEN fs \cup {FigPdf(index)} ELSE fs
                           /\ IF outcome = "raises"
                              THEN Raise(RendererRaised) /\ UNCHANGED sub
                              ELSE LET kept == Put(sub.result, index,
                                                   Returned(res.r, index, Len(calls) + 1)) IN
                                   IF Exists(FigPdf(index), fs')
                                   THEN /\ sub' = [sub EXCEPT !.result = kept, !.j = @ + 1,
                                                      !.fig_files = Append(@, FigPdf(index))]
                                        /\ UNCHANGED <<pc, err>>
                                   ELSE /\ sub' = [sub EXCEPT !.result = kept]
                                        /\ Raise(Exc("FigError",
                                                     "Sub-figure renderer completed but expected file not found",
                                                     NoName, NoName, NoName, NoName, index))
    /\ result' = WhileComposing(result, sub'.result)
    /\ UNCHANGED <<file, list, function, env, target, pos, fig_files, hist>>

\* a grid with its two numbers exchanged
GridExchanged(fig) == [col |-> Get(fig, "row").n, row |-> Get(fig, "column").n]

\* col=col, row=row of multi()'s call of concat_pdf_pages
Grid(fig) == [col |-> Get(fig, "column").n, row |-> Get(fig, "row").n]

\* the end of multi() and what create_pdf does with what it returns: the grid
\* concatenation, the merge of the results, the check of the combined page
MultiConcat ==
    /\ pc = "multi"
    /\ LET data == list.items[pos].val
           parent_pdf == FigPdf(sub.parent)
       IN
       /\ sub.j > Len(Get(data, "figures").items)
       /\ \E outcome \in Outcomes :
          /\ calls' = Append(calls, ConcatCall(sub.fig_files, parent_pdf,
                                               Grid(data).col, Grid(data).row, outcome,
                                               <<pos, 0>>))
          /\ fs' = IF outcome = "writes" THEN fs \cup {parent_pdf} ELSE fs
          /\ IF outcome = "raises"
             THEN /\ Raise(FigError("Concatenation for multi failed", sub.parent, NoName, NoName))
                  /\ UNCHANGED <<result, fig_files, pos, sub>>
             ELSE /\ result' = Merge(result, sub.result)
                  /\ IF Exists(parent_pdf, fs')
                     THEN /\ fig_files' = Append(fig_files, parent_pdf)
                          /\ pos' = pos + 1
                          /\ pc' = "top"
                          /\ sub' = NoSub
                          /\ UNCHANGED err
                     ELSE /\ Raise(Exc("FigError", "Composite PDF not produced",
                                       sub.parent, NoName, NoName, NoName, sub.parent))
                          /\ UNCHANGED <<fig_files, pos, sub>>
    /\ UNCHANGED <<file, list, function, eps, env, target, hist>>

\* a final page laid out two columns wide
FinalGridTwoColumns == [col |-> 2, row |-> 1]

\* col=1, row=1 of the final call of concat_pdf_pages
FinalGrid == [col |-> 1, row |-> 1]

\* after the loop: nothing produced, a single target done, or the final concatenation
Finish ==
    /\ pc = "top"
    /\ pos > Len(list.items)
    /\ IF NoPages(fig_files)
       THEN /\ Raise(FigError("No figures were produced", NoName, NoName, NoName))
            /\ UNCHANGED <<fs, calls>>
       ELSE IF Truthy(target)
       THEN /\ pc' = "idle"
            /\ UNCHANGED <<err, fs, calls>>
       ELSE \E outcome \in Outcomes :
            /\ calls' = Append(calls, ConcatCall(fig_files, OutFile, FinalGrid.col, FinalGrid.row,
                                               outcome, <<pos, 0>>))
            /\ fs' = IF outcome = "writes" THEN fs \cup {OutFile} ELSE fs
            /\ IF outcome = "raises"
               THEN Raise(FigError("Concatenation failed", NoName, NoName, NoName))
               ELSE pc' = "idle" /\ UNCHANGED err
    /\ UNCHANGED <<file, list, function, eps, env, result, target, pos, fig_files, sub, hist>>

-----------------------------------------------------------------------------
(* The builds of Spec: an instance constructed from a valid file, on which *)
(* the caller has registered a renderer for type "a" and then builds, the  *)
(* whole document or one target, any number of times.  Type "u" is known   *)
(* nowhere and the module of type "x:f" cannot be imported.                *)

MaxBuildNodes == 3   \* figure nodes (entries and children) of a tree that is built

BuildTypes == {"a", "u", "x:f"}

BuildGrids ==
    {<<Pair("row", JInt(1)), Pair("column", JInt(2))>>,
     <<Pair("row", JStr("x")), Pair("column", JInt(2))>>}

BuildNodes(w) ==
    IF w = 1
    THEN {Simple(t) : t \in BuildTypes}
         \cup {MultiNode(g, <<Pair("figures", JObj(<<>>))>>) : g \in BuildGrids}
    ELSE {MultiNode(g, <<Pair("figures", JObj([j \in 1..(w - 1) |-> Pair("", Simple(c[j]))]))>>) :
             g \in BuildGrids, c \in SeqsOf(BuildTypes \cup {"multi"}, w - 1)}

RECURSIVE BuildSeqs(_)
BuildSeqs(n) ==
    IF n = 0 THEN {<<>>}
    ELSE UNION {{<<x>> \o r : x \in BuildNodes(w), r \in BuildSeqs(n - w)} : w \in 1..n}

\* how the figures are named: every id is its own, or the first entry has the
\* empty id and the children of every multi entry are named like the entries
Namings ==
    {[top |-> <<"1", "2", "3", "4", "5">>,
      child |-> << <<"1a", "1b", "1c", "1d">>, <<"2a", "2b", "2c", "2d">>,
                   <<"3a", "3b", "3c", "3d">>, <<"4a", "4b", "4c", "4d">>,
                   <<"5a", "5b", "5c", "5d">> >>],
     [top |-> <<"", "1", "2", "3", "4">>,
      child |-> << <<"1", "2", "3", "4">>, <<"1", "2", "3", "4">>, <<"1", "2", "3", "4">>,
                   <<"1", "2", "3", "4">>, <<"1", "2", "3", "4">> >>]}

NameChildren(node, names) ==
    IF ~IsDict(Get(node, "figures")) THEN node
    ELSE JObj(DictSet(node.items, "figures",
                      Keyed([j \in 1..Len(Get(node, "figures").items) |->
                                Get(node, "figures").items[j].val], names)))

Named(nodes, naming) ==
    JObj([i \in 1..Len(nodes) |->
             Pair(naming.top[i], NameChildren(nodes[i], naming.child[i]))])

BuildTrees ==
    UNION {{Named(ns, naming) : ns \in BuildSeqs(n), naming \in Namings} :
              n \in 0..MaxBuildNodes}

\* what a caller passes to create_pdf: nothing, a top-level id, another string
Targets(tree) ==
    {None, "", "1a"} \cup {tree.items[i].key : i \in 1..Len(tree.items)}

Init ==
    /\ list \in BuildTrees
    /\ file = Encode(list)
    /\ pc = "idle"
    /\ err = NoErr
    /\ function = {Pair("a", Renderer("registered", "render_a"))}
    /\ eps = NotLoaded
    /\ env = NoPlugins
    /\ fs = {}
    /\ result = {}
    /\ target = None
    /\ pos = 0
    /\ fig_files = <<>>
    /\ sub = NoSub
    /\ calls = <<>>
    /\ hist = [NoHist EXCEPT !.valid = TRUE, !.op = "register"]

Next ==
    \/ \E t \in Targets(list) : CreatePdf(t)
    \/ TopEntry
    \/ MultiChild
    \/ MultiConcat
    \/ Finish

Spec == Init /\ [][Next]_vars

\* the first build on the instance, of the whole document or of one target
NextTerminating ==
    \/ \E t \in Targets(list) : hist.op = "register" /\ CreatePdf(t)
    \/ TopEntry
    \/ MultiChild
    \/ MultiConcat
    \/ Finish

\* create_pdf is one sequential call: once started, its loop goes on with the
\* next entry, child or concatenation, every call of a renderer or of the
\* collaborator returning
SpecTerminating ==
    /\ Init /\ [][NextTerminating]_vars
    /\ WF_vars(TopEntry) /\ WF_vars(MultiChild) /\ WF_vars(MultiConcat) /\ WF_vars(Finish)

-----------------------------------------------------------------------------
(* The resolver on its own (SpecResolve): the caller registers renderers   *)
(* and calls _resolve_renderer, while packages that advertise entry points *)
(* are installed or removed.                                               *)

TypeNames == {"a", "p", "u", "m:f", "m:g", "m:h", "x:f", "m:f:z"}

RegisteredNames == {"a", "m:f"}

Callables == {Renderer("registered", "render_a"), Renderer("registered", "render_b")}

Installed ==
    {EntryPoint("a", "callable"), EntryPoint("p", "callable"), EntryPoint("m:f", "callable"),
     EntryPoint("u", "not callable"), EntryPoint("m:g", "raises")}

\* nothing installed, the packages installed, the enumeration of entry points raising
Environments ==
    {NoPlugins, [broken |-> FALSE, eps |-> Installed], [broken |-> TRUE, eps |-> Installed]}

\* fig._resolve_renderer(type_name), called by the user of the instance
Resolve(type_name) ==
    /\ pc = "idle"
    /\ LET res == ResolveRenderer(type_name, function, eps, env) IN
       /\ eps' = res.eps
       /\ err' = res.err
       /\ hist' = [hist EXCEPT !.op = "resolve", !.asked = type_name, !.got = res.r]
    /\ UNCHANGED <<file, list, pc, function, env, fs, result, target, pos, fig_files,
                   sub, calls>>

\* a package is installed or removed
ChangeEnvironment(e) ==
    /\ env # e
    /\ env' = e
    /\ UNCHANGED <<file, list, pc, err, function, eps, fs, result, target, pos, fig_files,
                   sub, calls, hist>>

InitResolve ==
    /\ list = JObj(<<>>)
    /\ file = Encode(list)
    /\ pc = "idle"
    /\ err = NoErr
    /\ function = {}
    /\ eps = NotLoaded
    /\ env \in Environments
    /\ fs = {}
    /\ result = {}
    /\ target = None
    /\ pos = 0
    /\ fig_files = <<>>
    /\ sub = NoSub
    /\ calls = <<>>
    /\ hist = [NoHist EXCEPT !.valid = TRUE, !.op = "load"]

NextResolve ==
    \/ \E t \in RegisteredNames, r \in Callables : Register(t, r)
    \/ \E t \in TypeNames : Resolve(t)
    \/ \E e \in Environments : ChangeEnvironment(e)

SpecResolve == InitResolve /\ [][NextResolve]_vars

-----------------------------------------------------------------------------
(* One instance from its construction on (SpecInstance): the caller        *)
(* registers renderers, resolves type names and runs full builds, while    *)
(* packages that advertise entry points are installed or removed.          *)

InstanceTrees ==
    {JObj(<<Pair("1", Simple("a")), Pair("2", Simple("p"))>>),
     JObj(<<Pair("1", MultiNode(<<Pair("row", JInt(1)), Pair("column", JInt(2))>>,
                                <<Pair("figures", JObj(<<Pair("1a", Simple("p")),
                                                         Pair("1b", Simple("a"))>>))>>)),
            Pair("2", Simple("m:f"))>>)}

InstanceNames == {"a", "p", "x:f"}

InitInstance ==
    /\ file \in {Encode(t) : t \in InstanceTrees}
    /\ env \in Environments
    /\ NewFig

NextInstance ==
    \/ Construct
    \/ \E r \in Callables : Register("a", r)
    \/ \E t \in InstanceNames : Resolve(t)
    \/ \E e \in Environments : ChangeEnvironment(e)
    \/ CreatePdf(None)
    \/ TopEntry
    \/ MultiChild
    \/ MultiConcat
    \/ Finish

SpecInstance == InitInstance /\ [][NextInstance]_vars

-----------------------------------------------------------------------------
(* Builds of a tree in which a child of a multi entry has the type "multi" *)
(* and 'figures' of its own (SpecNested); the caller registers renderers,  *)
(* for any name it likes, and builds.                                      *)

\* a multi block with one figure "9" in it, as the child of a multi entry
NestedBlock ==
    MultiNode(<<Pair("row", JInt(1)), Pair("column", JInt(1))>>,
              <<Pair("figures", JObj(<<Pair("9", Simple("a"))>>))>>)

NestedTrees ==
    {JObj(<<Pair("1", MultiNode(<<Pair("row", JInt(1)), Pair("column", JInt(2))>>,
                                <<Pair("figures", JObj(<<Pair("1a", Simple("a")),
                                                         Pair("1b", NestedBlock)>>))>>))>>),
     JObj(<<Pair("1", Simple("a")),
            Pair("2", MultiNode(<<Pair("row", JInt(1)), Pair("column", JInt(2))>>,
                                <<Pair("figures", JObj(<<Pair("2a", NestedBlock)>>))>>))>>)}

InitNested ==
    /\ file \in {Encode(t) : t \in NestedTrees}
    /\ env = NoPlugins
    /\ NewFig

NextNested ==
    \/ Construct
    \/ \E t \in {"a", "multi"}, r \in Callables : Register(t, r)
    \/ \E t \in {None, "1"} : CreatePdf(t)
    \/ TopEntry
    \/ MultiChild
    \/ MultiConcat
    \/ Finish

SpecNested == InitNested /\ [][NextNested]_vars

-----------------------------------------------------------------------------
(* Builds of trees in which one id is used in two scopes (SpecCollide):    *)
(* an entry and a child of a later multi entry, a child and a later entry, *)
(* the children of two multi entries.  The two figures have different      *)
(* types, "a" and "b", with a renderer registered for each.                *)

OneChild(index, t) ==
    MultiNode(<<Pair("row", JInt(1)), Pair("column", JInt(1))>>,
              <<Pair("figures", JObj(<<Pair(index, Simple(t))>>))>>)

CollideTrees ==
    {JObj(<<Pair("1", Simple("a")), Pair("2", OneChild("1", "b"))>>),
     JObj(<<Pair("2", OneChild("1", "b")), Pair("1", Simple("a"))>>),
     JObj(<<Pair("1", OneChild("x", "a")), Pair("2", OneChild("x", "b"))>>)}

InitCollide ==
    /\ list \in CollideTrees
    /\ file = Encode(list)
    /\ pc = "idle"
    /\ err = NoErr
    /\ function = {Pair("a", Renderer("registered", "render_a")),
                   Pair("b", Renderer("registered", "render_b"))}
    /\ eps = NotLoaded
    /\ env = NoPlugins
    /\ fs = {}
    /\ result = {}
    /\ target = None
    /\ pos = 0
    /\ fig_files = <<>>
    /\ sub = NoSub
    /\ calls = <<>>
    /\ hist = [NoHist EXCEPT !.valid = TRUE, !.op = "register"]

NextCollide ==
    \/ \E t \in {None, "1", "2"} : CreatePdf(t)
    \/ TopEntry
    \/ MultiChild
    \/ MultiConcat
    \/ Finish

SpecCollide == InitCollide /\ [][NextCollide]_vars

-----------------------------------------------------------------------------
(* Builds of multi entries whose 'row' and 'column' hold any JSON value    *)
(* (SpecGrid): a first entry, simple or multi, then the entry in question. *)

GridValues == {JInt(1), JInt(2), JStr("x"), JBool(TRUE), JNull}

GridTrees ==
    {JObj(<<Pair("1", first),
            Pair("2", MultiNode(<<Pair("row", r), Pair("column", c)>>,
                                <<Pair("figures", JObj(<<Pair("2a", Simple("a"))>>))>>))>>) :
        first \in {Simple("a"),
                   MultiNode(<<Pair("row", JInt(1)), Pair("column", JInt(2))>>,
                             <<Pair("figures", JObj(<<Pair("1a", Simple("a"))>>))>>)},
        r \in GridValues, c \in GridValues}

InitGrid ==
    /\ list \in GridTrees
    /\ file = Encode(list)
    /\ pc = "idle"
    /\ err = NoErr
    /\ function = {Pair("a", Renderer("registered", "render_a"))}
    /\ eps = NotLoaded
    /\ env = NoPlugins
    /\ fs = {}
    /\ result = {}
    /\ target = None
    /\ pos = 0
    /\ fig_files = <<>>
    /\ sub = NoSub
    /\ calls = <<>>
    /\ hist = [NoHist EXCEPT !.valid = TRUE, !.op = "register"]

NextGrid ==
    \/ \E t \in {None, "2"} : hist.op = "register" /\ CreatePdf(t)
    \/ TopEntry
    \/ MultiChild
    \/ MultiConcat
    \/ Finish

SpecGrid == InitGrid /\ [][NextGrid]_vars

-----------------------------------------------------------------------------
(* The command 'paperfig build' (SpecCli): cmd_build constructs a Fig on   *)
(* the file it is given and calls create_pdf() once; nothing is registered *)
(* on that instance, its renderers are plugins or addresses.               *)

CliTypes == {"a", "p", "m:f", "u"}

\* files of one or two simple entries
CliTrees ==
    {JObj(<<Pair("1", Simple(t))>>) : t \in CliTypes}
    \cup {JObj(<<Pair("1", Simple(t)), Pair("2", Simple(u))>>) : t, u \in CliTypes}

CliDocs ==
    LoadDocs
    \cup {Encode(t) : t \in InstanceTrees \cup CliTrees}
    \cup {Encode(JObj(<<Pair("1", JObj(<<>>))>>))}

\* fig = Fig(args.json_file)
CmdBuildFig == Construct

\* fig.create_pdf()
CmdBuildCreatePdf == hist.op = "load" /\ CreatePdf(None)

\* what cmd_build ends with: the status it returns, or "raised" when an
\* exception leaves it; Fig(...) is called before the try statement, and the
\* except clause catches FigError only
CmdBuildStatus ==
    IF pc = "dead" THEN "raised"
    ELSE IF pc = "idle" /\ hist.op = "build"
    THEN IF err = NoErr THEN "0" ELSE IF err.cls = "FigError" THEN "2" ELSE "raised"
    ELSE "running"

InitCli ==
    /\ file \in CliDocs
    /\ env \in Environments
    /\ NewFig

NextCli ==
    \/ CmdBuildFig
    \/ CmdBuildCreatePdf
    \/ TopEntry
    \/ MultiChild
    \/ MultiConcat
    \/ Finish

SpecCli == InitCli /\ [][NextCli]_vars

-----------------------------------------------------------------------------
(* Properties of validation (SpecLoad)                                     *)

\* a node is an object with a string 'type'
Typed(node) == IsDict(node) /\ IsStr(Get(node, "type"))

IsMulti(node) == Typed(node) /\ Get(node, "type").s = "multi"

HasMultiFields(node) ==
    IsDict(Get(node, "figures")) /\ Has(node, "row") /\ Has(node, "column")

Children(node) ==
    LET figs == Get(node, "figures") IN
    IF IsDict(figs) THEN {figs.items[j].val : j \in 1..Len(figs.items)} ELSE {}

Entries(tree) == {tree.items[i].val : i \in 1..Len(tree.items)}

\* the root is an object, every entry and every child is typed, and every
\* top-level multi entry has 'figures' (an object), 'row' and 'column'
WellFormed(tree) ==
    /\ IsDict(tree)
    /\ \A node \in Entries(tree) :
          /\ Typed(node)
          /\ IsMulti(node) =>
                /\ HasMultiFields(node)
                /\ \A c \in Children(node) : Typed(c)

\* the same, and every child whose type is "multi" has the multi fields too
WellFormedAllMulti(tree) ==
    /\ WellFormed(tree)
    /\ \A node \in Entries(tree) :
          IsMulti(node) => \A c \in Children(node) : IsMulti(c) => HasMultiFields(c)

Parsed == pc \in {"idle", "dead"} /\ list # NoList

ValidationErrors ==
    {"Root of JSON must be an object", "spec must be an object",
     "must have a string 'type' field", "multi requires 'figures' object",
     "sub-figure must be object", "sub-figure must have string 'type'",
     "multi requires key"}

\* C1 (as amended): validation accepts a parsed tree iff the root is an object,
\* every top-level entry and every child of a multi entry is an object with a
\* string 'type', and every top-level entry whose type is "multi" has 'figures'
\* (an object), 'row' and 'column'; every other tree is rejected with a
\* validation error.  A child whose type is "multi" needs nothing more.
C1_ValidationAcceptsIffWellFormed ==
    Parsed =>
        /\ (err = NoErr) <=> WellFormed(list)
        /\ (pc = "idle") <=> WellFormed(list)
        /\ err # NoErr => err.cls = "FigError" /\ err.msg \in ValidationErrors

\* C1 witness: a tree was accepted in which a multi entry has a child whose type is "multi"
C1_Witness ==
    /\ pc = "idle"
    /\ err = NoErr
    /\ \E node \in Entries(list) : IsMulti(node) /\ \E c \in Children(node) : IsMulti(c)

\* C1 (as stated): ... and every node whose type is "multi", a child included,
\* has 'figures', 'row' and 'column'
C1_Original_EveryMultiNode ==
    Parsed => ((err = NoErr) <=> WellFormedAllMulti(list))

-----------------------------------------------------------------------------
(* Properties of load and save (SpecFile)                                  *)

\* a save that opened the file, straight after a load that raised nothing
SavedAsLoaded ==
    hist.op \in {"save", "save failed"} /\ hist.valid /\ ~hist.dirty

C8_Step ==
    /\ SavedAsLoaded' => JsonLoad(file').ok /\ JsonLoad(file').v = list
    /\ (hist.op = "save" /\ hist'.op = "load after save") => list' = list

\* C8 (as stated): loading a valid file x and saving it writes a file that parses
\* to the tree x parses to, same keys, values and key order at every level; and a
\* load after a save that followed an edit yields the edited tree
C8_Original_RoundTrip == [][C8_Step]_vars

\* the round trip of the files every string of which utf-8 can encode
C8_RoundTripOfEncodable ==
    SavedAsLoaded /\ AllEncodable(Encode(list)) => JsonLoad(file).ok /\ JsonLoad(file).v = list

-----------------------------------------------------------------------------
(* Properties of the resolver (SpecResolve)                                *)

Resolved == pc = "idle" /\ hist.op = "resolve"

ImportTried == hist.got.src = "import" \/ err.msg = "Failed to import renderer"

\* C2: after any sequence of register calls, resolving a registered name returns
\* the renderer registered last for it, whatever plug-in or importable address
\* has that name; a plug-in is returned only for a name that is not registered;
\* the import is tried only for a name that is neither registered nor a plug-in
C2_RegisteredRendererWins ==
    Resolved =>
        /\ HasKey(function, hist.asked) =>
              hist.got = Lookup(function, hist.asked) /\ err = NoErr
        /\ hist.got.src = "entry point" =>
              ~HasKey(function, hist.asked) /\ HasKey(eps.map, hist.asked)
        /\ ImportTried =>
              ~HasKey(function, hist.asked) /\ ~HasKey(eps.map, hist.asked)

\* C2 witness: "m:f" is registered, is the name of an installed plug-in and is an
\* importable address, and the registered renderer was returned
C2_Witness ==
    /\ Resolved
    /\ hist.asked = "m:f"
    /\ ~env.broken /\ EntryPoint("m:f", "callable") \in env.eps
    /\ hist.got = Renderer("registered", "render_b")

-----------------------------------------------------------------------------
(* Properties of the builds (Spec).  A build is the run of create_pdf that *)
(* the last operation started; calls is the log of what it has called.     *)

Building == hist.op = "build"

\* create_pdf has returned or raised
Done == Building /\ pc = "idle"

Succeeded == Done /\ err = NoErr

\* no target was requested
FullBuild == Building /\ (target = None \/ target = "")

TopKeys == {list.items[i].key : i \in 1..Len(list.items)}

\* a build of one target that is a top-level id
SingleTargetBuild == Building /\ target # None /\ target # "" /\ target \in TopKeys

TargetPos == CHOOSE i \in 1..Len(list.items) : list.items[i].key = target

Renders == SelectSeq(calls, LAMBDA c : c.op = "render")

Concats == SelectSeq(calls, LAMBDA c : c.op = "concat")

MultiPositions == {i \in 1..Len(list.items) : IsMulti(list.items[i].val)}

Figures(i) == Get(list.items[i].val, "figures")

\* the figures of entry i that have a renderer, in the order of the file
Turns(i) ==
    IF i \in MultiPositions
    THEN [j \in 1..Len(Figures(i).items) |-> <<i, j>>]
    ELSE << <<i, 0>> >>

RECURSIVE TurnsFrom(_)
TurnsFrom(i) == IF i > Len(list.items) THEN <<>> ELSE Turns(i) \o TurnsFrom(i + 1)

InsertionOrder == TurnsFrom(1)

NodeAt(at) ==
    IF at[2] = 0 THEN list.items[at[1]] ELSE Figures(at[1]).items[at[2]]

IdAt(at) == NodeAt(at).key

TypeAt(at) == Get(NodeAt(at).val, "type").s

\* the call log never leaves the target: every renderer call is for the
\* target entry or one of its children, every concatenation is the target's grid
OnlyTarget(i) ==
    \A k \in 1..Len(calls) :
        /\ calls[k].op = "render" => calls[k].at[1] = i
        /\ calls[k].op = "concat" =>
              /\ i \in MultiPositions
              /\ calls[k].output_file = FigPdf(target)
              /\ k = Len(calls)

\* C3 (as amended): a build of a single non-empty top-level id T invokes only
\* the renderer of T, or of T's children when T is a multi entry, and never
\* concatenates the final deliverable; the collaborator is called zero times
\* when T is simple and once, last, for T's own grid when T is multi; when the
\* build succeeds figT.pdf exists.
C3_SingleTargetStaysInTarget ==
    SingleTargetBuild =>
        /\ OnlyTarget(TargetPos)
        /\ Succeeded =>
              /\ FigPdf(target) \in fs
              /\ Len(Concats) = (IF TargetPos \in MultiPositions THEN 1 ELSE 0)

\* a successful build of a multi target in a tree that has another entry
C3_Witness ==
    /\ SingleTargetBuild /\ Succeeded
    /\ TargetPos \in MultiPositions
    /\ Len(list.items) >= 2
    /\ Len(Renders) >= 1
    /\ Len(Concats) = 1

\* C3 as stated: for every top-level id T, simple or multi, a build of T
\* invokes no renderer of another entry and calls the collaborator zero times.
C3_Original_NoConcatenationAtAll ==
    (Building /\ target \in TopKeys) =>
        /\ \A k \in 1..Len(calls) : calls[k].op = "render" => calls[k].at[1] = TargetPos
        /\ Concats = <<>>

MissingArtifactMessages ==
    {"Renderer completed but expected file not found",
     "Sub-figure renderer completed but expected file not found"}

\* the k-th call is a renderer that returned and whose artifact does not exist
\* (files are never removed: absent now, it was absent when the renderer returned)
ArtifactMissing(k) ==
    /\ calls[k].op = "render"
    /\ calls[k].outcome = "silent"
    /\ calls[k].output_file \notin fs

\* C4 (as amended): in any build, if fig<id>.pdf does not exist when the
\* renderer of a top-level simple entry or of a multi child returns, the build
\* fails with a missing-artifact error that names the id (in the path), and
\* nothing is called after that renderer: no grid and no final concatenation.
C4_MissingArtifactEndsTheBuild ==
    Building =>
        \A k \in 1..Len(calls) :
            ArtifactMissing(k) =>
                /\ k = Len(calls)
                /\ pc = "idle"
                /\ err.cls = "FigError"
                /\ err.msg \in MissingArtifactMessages
                /\ err.path = calls[k].id

\* a child of a multi entry leaves no artifact, after the grid of an
\* earlier multi entry was concatenated in the same build
C4_Witness ==
    /\ Done
    /\ Len(calls) >= 2
    /\ ArtifactMissing(Len(calls))
    /\ calls[Len(calls)].at[2] >= 1
    /\ Concats # <<>>
    /\ err.msg = "Sub-figure renderer completed but expected file not found"

\* C4 as stated: whenever a renderer returns without writing its artifact the
\* build fails with the missing-artifact error naming the id, and the build
\* calls the collaborator not once.
C4_Original_NoWriteNoConcatenation ==
    Building =>
        \A k \in 1..Len(calls) :
            (calls[k].op = "render" /\ calls[k].outcome = "silent") =>
                /\ pc = "idle"
                /\ err.msg \in MissingArtifactMessages
                /\ err.path = calls[k].id
                /\ Concats = <<>>

\* the type resolves to a renderer for this instance
Resolves(t) ==
    LET res == ResolveRenderer(t, function, eps, env) IN
    res.err = NoErr /\ res.r # NoRenderer

AllResolve == \A at \in Range(InsertionOrder) : Resolves(TypeAt(at))

IntegerGrids ==
    \A i \in MultiPositions :
        IsInt(Get(list.items[i].val, "row")) /\ IsInt(Get(list.items[i].val, "column"))

\* every renderer called wrote its artifact, every concatenation its output
AllWrote == \A k \in 1..Len(calls) : calls[k].outcome = "writes"

\* the ids of the figures that have a renderer
RenderedIds == {IdAt(at) : at \in Range(InsertionOrder)}

\* the last call of a renderer for the id
LastRender(id) ==
    CHOOSE k \in 1..Len(calls) :
        /\ calls[k].op = "render" /\ calls[k].id = id
        /\ \A m \in (k + 1)..Len(calls) : ~(calls[m].op = "render" /\ calls[m].id = id)

\* the call of the renderer of the figure at a position
RenderOf(at) == CHOOSE k \in 1..Len(calls) : calls[k].op = "render" /\ calls[k].at = at

\* every artifact of the tree and the final deliverable exist, the deliverable
\* written by the last call of this build
Delivered ==
    /\ err = NoErr
    /\ \A id \in RenderedIds : FigPdf(id) \in fs
    /\ \A i \in MultiPositions : FigPdf(list.items[i].key) \in fs
    /\ OutFile \in fs
    /\ calls # <<>>
    /\ calls[Len(calls)].op = "concat"
    /\ calls[Len(calls)].output_file = OutFile
    /\ KeySet(result) = RenderedIds

\* C5 (as amended): for every valid, non-empty tree whose multi entries have
\* integer 'row' and 'column' and whose types all resolve to renderers that
\* write their artifact (the collaborator writing its output), a full build
\* succeeds; afterwards fig<id>.pdf exists for every top-level simple id, every
\* multi child id and every multi parent id, the final deliverable exists, and
\* the results hold exactly the simple and child ids, each with the value
\* returned by the renderer that was invoked last for that id.
C5_FullBuildDelivers ==
    (Done /\ FullBuild /\ list.items # <<>> /\ IntegerGrids /\ AllResolve /\ AllWrote) =>
        /\ Delivered
        /\ \A id \in RenderedIds :
              Lookup(result, id) = Returned(calls[LastRender(id)].by, id, LastRender(id))

\* a simple entry and a multi entry with a child, built and delivered
C5_Witness ==
    /\ Succeeded /\ FullBuild /\ AllWrote
    /\ Len(list.items) = 2
    /\ MultiPositions # {} /\ MultiPositions # {1, 2}
    /\ Len(Renders) = 2
    /\ Cardinality(result) = 2
    /\ OutFile \in fs

\* C5 as stated: for every valid tree whose types all resolve to renderers that
\* write, a full build succeeds and delivers, with every id mapped to the
\* value its own renderer returned.
C5_Original_EveryValidTree ==
    (Done /\ FullBuild /\ AllResolve /\ AllWrote) =>
        /\ Delivered
        /\ \A at \in Range(InsertionOrder) :
              Lookup(result, IdAt(at)) = Returned(calls[RenderOf(at)].by, IdAt(at), RenderOf(at))

\* the figure the build was at when create_pdf returned or raised
StoppedAt == IF sub.parent # NoName THEN <<pos, sub.j>> ELSE <<pos, 0>>

\* the build stopped at a figure whose type names no renderer
StoppedUnresolved ==
    /\ Done
    /\ StoppedAt \in Range(InsertionOrder)
    /\ ~Resolves(TypeAt(StoppedAt))

\* C6 as stated: when the type of a figure is unresolvable the build fails with
\* an error that names the figure id and the type, and the renderer of that
\* figure is not invoked.
C6_Original_ResolutionErrorNamesIdAndType ==
    StoppedUnresolved =>
        /\ err.cls = "FigError"
        /\ err.type = TypeAt(StoppedAt)
        /\ err.id = IdAt(StoppedAt) \/ err.sub = IdAt(StoppedAt)
        /\ \A k \in 1..Len(calls) : calls[k].at # StoppedAt

\* what the code does: the error names the type, and the figure too unless the
\* type is an address that could not be imported
C6_ErrorNamesTypeAndMostlyId ==
    StoppedUnresolved =>
        /\ err.cls = "FigError"
        /\ err.type = TypeAt(StoppedAt)
        /\ IF err.msg = "Failed to import renderer"
           THEN err.id = NoName /\ err.sub = NoName /\ err.path = NoName
           ELSE err.id = IdAt(StoppedAt) \/ err.sub = IdAt(StoppedAt)
        /\ \A k \in 1..Len(calls) : calls[k].at # StoppedAt

EmptyOutput == err.cls = "FigError" /\ err.msg = "No figures were produced"

\* the loop of a full build ran to its end
LoopEnded == Done /\ FullBuild /\ pos > Len(list.items)

\* C7: a full build of the empty tree fails with the empty-output error; a
\* full build whose loop ran to its end without an error fails with the
\* empty-output error exactly when no page was produced, and then the
\* collaborator was not called: no final deliverable was written by the build.
C7_EmptyOutputIffNoPages ==
    /\ (Done /\ FullBuild /\ list.items = <<>>) => EmptyOutput
    /\ LoopEnded =>
          /\ EmptyOutput <=> fig_files = <<>>
          /\ EmptyOutput => Concats = <<>>

\* the full build of {} has failed
C7_Witness == Done /\ FullBuild /\ list.items = <<>> /\ EmptyOutput /\ calls = <<>>

\* C9: in a successful full build the renderers were invoked in the order of
\* the file: entry after entry, the children of a multi entry in their own
\* order at the place of the entry, and each of them exactly once.
C9_RenderersInInsertionOrder ==
    (Succeeded /\ FullBuild) =>
        /\ [k \in 1..Len(Renders) |-> Renders[k].at] = InsertionOrder
        /\ \A k \in 1..Len(Renders) : Renders[k].id = IdAt(Renders[k].at)

\* a multi entry with two children, or with one child and followed by an entry
C9_Witness ==
    /\ Succeeded /\ FullBuild
    /\ 1 \in MultiPositions
    /\ Len(Renders) >= 2
    /\ Renders[2].at \in {<<1, 2>>, <<2, 0>>}

BuildFailed == Building /\ err # NoErr

\* the final deliverable was not written by the build: if the final
\* concatenation was called at all it is the step that failed
NotFinalized ==
    \A k \in 1..Len(calls) :
        calls[k].output_file = OutFile => k = Len(calls) /\ calls[k].outcome = "raises"

\* no renderer was invoked for a figure after the one the build stopped at
NothingLater ==
    \A k \in 1..Len(calls) :
        calls[k].op = "render" =>
            \/ calls[k].at[1] < StoppedAt[1]
            \/ calls[k].at[1] = StoppedAt[1] /\ calls[k].at[2] <= StoppedAt[2]

\* a failed build calls nothing more, writes nothing more and keeps no more
\* results; what comes next is another build
C10_Step ==
    /\ BuildFailed =>
          \/ calls' = calls /\ fs' = fs /\ result' = result
          \/ calls' = <<>> /\ result' = {} /\ fs' = fs /\ pos' = 1
    /\ BuildFailed' => NotFinalized' /\ NothingLater'

\* C10: once a step of a build has failed, no renderer of a later entry or
\* child is invoked, the final concatenation is not attempted and the final
\* deliverable is not written by that build.
C10_AbortsOnFirstError == [][C10_Step]_vars

\* a build failed after a renderer had run, with entries still to come
C10_Witness ==
    /\ Done /\ BuildFailed
    /\ err.cls = "FigError"
    /\ Len(Renders) >= 1
    /\ pos < Len(list.items)

\* one page for every top-level entry, in the order of the file
TopPages == [i \in 1..Len(list.items) |-> FigPdf(list.items[i].key)]

FinalCalls == SelectSeq(calls, LAMBDA c : c.output_file = OutFile)

\* C11: a full build whose loop ran to its end with at least one page calls the
\* final concatenation exactly once, as its last call, with column 1 and row 1,
\* the output <output_dir>/<pdf_filename> and one page per top-level entry
\* (fig<id>.pdf, never a child's page) in the order of the file; if the
\* collaborator raises, the build fails with the concatenation error.  No
\* build calls the final concatenation before its loop has ended.
C11_FinalConcatenation ==
    /\ (LoopEnded /\ fig_files # <<>>) =>
          /\ Len(FinalCalls) = 1
          /\ calls[Len(calls)] = FinalCalls[1]
          /\ FinalCalls[1].op = "concat"
          /\ FinalCalls[1].col = 1 /\ FinalCalls[1].row = 1
          /\ FinalCalls[1].input_files = TopPages
          /\ IF FinalCalls[1].outcome = "raises"
             THEN err.cls = "FigError" /\ err.msg = "Concatenation failed"
             ELSE err = NoErr
    /\ (Building /\ FinalCalls # <<>>) => LoopEnded

\* a simple entry and a multi entry with a child, concatenated by a
\* collaborator that raises
C11_Witness ==
    /\ LoopEnded
    /\ Len(list.items) = 2
    /\ MultiPositions # {}
    /\ Len(Renders) = 2
    /\ Len(FinalCalls) = 1
    /\ err.msg = "Concatenation failed"

-----------------------------------------------------------------------------
(* Properties of plugin discovery (SpecInstance).                          *)

\* the step ends a call of _resolve_renderer by the caller for a registered name
ResolvedRegistered ==
    /\ hist'.op = "resolve" /\ pc = "idle" /\ hist' # hist
    /\ HasKey(function, hist'.asked)

\* the step invokes a renderer that was registered
RenderedRegistered ==
    /\ Len(calls') = Len(calls) + 1
    /\ calls'[Len(calls')].op = "render"
    /\ calls'[Len(calls')].by.src = "registered"

C12_Step ==
    /\ eps'.n <= 1
    /\ pc = "new" => eps' = NotLoaded
    /\ eps.loaded => eps' = eps
    /\ (ResolvedRegistered \/ RenderedRegistered) => eps' = eps

\* C12: on one instance the entry points are enumerated at most once, also
\* when the enumeration found nothing or raised; not by the construction, and
\* not by a resolution that finds a registration; once there is a discovered
\* set every later resolution, by the caller or by a build, leaves it as it is.
C12_DiscoveryOnceAndLazy == [][C12_Step]_vars

\* the first enumeration found nothing; the plugin "p" was installed since, and
\* a later resolution of "p" by the caller still finds nothing
C12_Witness ==
    /\ pc = "idle" /\ hist.op = "resolve" /\ hist.asked = "p"
    /\ eps.loaded /\ eps.n = 1 /\ eps.map = {}
    /\ ~env.broken /\ EntryPoint("p", "callable") \in env.eps
    /\ hist.got = NoRenderer

-----------------------------------------------------------------------------
(* Properties of the build command (SpecCli).                              *)

CmdBuildEnded == CmdBuildStatus # "running"

\* C13 as stated: for every FigError raised while the build command loads the
\* spec or builds the figures cmd_build returns 2 and the error does not leave
\* it; it returns 0 exactly when the build completed without error.
C13_Original_EveryFigErrorGivesTwo ==
    CmdBuildEnded =>
        /\ err.cls = "FigError" => CmdBuildStatus = "2"
        /\ CmdBuildStatus = "0" <=> err = NoErr

\* what the code does: a FigError of create_pdf gives 2, a FigError of the
\* construction (file missing, not JSON, not valid) leaves cmd_build
C13_OnlyBuildErrorsGiveTwo ==
    CmdBuildEnded =>
        /\ (err.cls = "FigError" /\ hist.op = "build") => CmdBuildStatus = "2"
        /\ (err.cls = "FigError" /\ hist.op = "load") => CmdBuildStatus = "raised"
        /\ CmdBuildStatus = "0" <=> (err = NoErr /\ hist.op = "build")

-----------------------------------------------------------------------------
(* Properties of the composition of a multi entry (Spec).                  *)

\* the calls of the grid concatenation of the entry at position i
GridCalls(i) == {k \in 1..Len(calls) : calls[k].op = "concat" /\ calls[k].at = <<i, 0>>}

ChildPages(i) == [j \in 1..Len(Figures(i).items) |-> FigPdf(Figures(i).items[j].key)]

\* before the k-th call the renderer of every child of entry i returned and
\* left its artifact
ChildrenDoneBefore(i, k) ==
    \A j \in 1..Len(Figures(i).items) :
        /\ \E m \in 1..(k - 1) :
              /\ calls[m].op = "render" /\ calls[m].at = <<i, j>>
              /\ calls[m].outcome # "raises"
        /\ FigPdf(Figures(i).items[j].key) \in fs

\* the build went through the entry at position i and past it
Passed(i) == Building /\ pos > i /\ (FullBuild \/ target = list.items[i].key)

\* the build stopped at a child of the entry at position i, before the grid
ChildFailed(i) ==
    /\ Done /\ err # NoErr
    /\ StoppedAt[1] = i
    /\ StoppedAt[2] \in 1..Len(Figures(i).items)

\* C14: the grid concatenation of a multi entry is called at most once in a
\* build, exactly once when the build gets past the entry, and only after
\* every child was rendered and its artifact found; it is given the children's
\* pages in the order of the file, the entry's column and row and the output
\* fig<parent_id>.pdf; it is not called when a child fails, and when the
\* collaborator raises the build fails with the concatenation error naming the
\* parent id.
C14_GridConcatenation ==
    Building =>
        \A i \in MultiPositions :
            /\ Cardinality(GridCalls(i)) <= 1
            /\ Passed(i) => Cardinality(GridCalls(i)) = 1
            /\ ChildFailed(i) => GridCalls(i) = {}
            /\ \A k \in GridCalls(i) :
                  /\ ChildrenDoneBefore(i, k)
                  /\ calls[k].input_files = ChildPages(i)
                  /\ calls[k].col = Get(list.items[i].val, "column").n
                  /\ calls[k].row = Get(list.items[i].val, "row").n
                  /\ calls[k].output_file = FigPdf(list.items[i].key)
                  /\ calls[k].outcome = "raises" =>
                        /\ Done /\ k = Len(calls)
                        /\ err.cls = "FigError"
                        /\ err.msg = "Concatenation for multi failed"
                        /\ err.id = list.items[i].key

\* the grid of a multi entry with two children was concatenated
C14_Witness ==
    /\ Building
    /\ \E i \in MultiPositions :
          /\ Len(Figures(i).items) = 2
          /\ Passed(i)
          /\ \E k \in GridCalls(i) : Len(calls[k].input_files) = 2 /\ calls[k].outcome = "writes"

\* the step is the return of multi() for the entry at pos: the grid
\* concatenation was called and did not raise
CompositionReturns ==
    /\ pc = "multi"
    /\ Len(calls') = Len(calls) + 1
    /\ calls'[Len(calls')].op = "concat"
    /\ calls'[Len(calls')].outcome # "raises"

C15_Step ==
    CompositionReturns =>
        LET parent == list.items[pos].key IN
        IF FigPdf(parent) \in fs'
        THEN /\ fig_files' = Append(fig_files, FigPdf(parent))
             /\ err' = NoErr /\ pc' = "top"
        ELSE /\ fig_files' = fig_files
             /\ pc' = "idle"
             /\ err'.cls = "FigError"
             /\ err'.msg = "Composite PDF not produced"
             /\ err'.id = parent

\* C15: when the composition of a multi entry has returned, the combined page
\* fig<parent_id>.pdf must exist: if it does not, the build fails with the
\* missing-artifact error naming the parent id and the page list stays as it
\* was; if it does, that one path is appended to the page list.
C15_CombinedPageRequired == [][C15_Step]_vars

\* the collaborator returned without writing the combined page of the second
\* entry, and the build failed with one page in its list
C15_Witness ==
    /\ Done
    /\ err.msg = "Composite PDF not produced"
    /\ pos = 2
    /\ Len(fig_files) = 1
    /\ calls[Len(calls)].outcome = "silent"

-----------------------------------------------------------------------------
(* Properties of the validation errors (SpecLoad).                         *)

\* the entry is as validation wants it
EntryOk(node) ==
    /\ Typed(node)
    /\ IsMulti(node) => HasMultiFields(node) /\ \A c \in Children(node) : Typed(c)

\* the first entry, in the order of the file, that is not
FirstOffender(tree) ==
    CHOOSE i \in 1..Len(tree.items) :
        /\ ~EntryOk(tree.items[i].val)
        /\ \A m \in 1..(i - 1) : EntryOk(tree.items[m].val)

\* the field the error names is missing from the node or invalid in it; an
\* error that names no field is about a node that is no object
BadField(node, field) ==
    CASE field = NoName -> ~IsDict(node)
      [] field = "type" -> IsDict(node) /\ ~IsStr(Get(node, "type"))
      [] field = "figures" -> IsMulti(node) /\ ~IsDict(Get(node, "figures"))
      [] field \in {"row", "column"} -> IsMulti(node) /\ ~Has(node, field)
      [] OTHER -> FALSE

\* a tree with an object as its root was rejected
EntryRejected == Parsed /\ pc = "dead" /\ IsDict(list)

\* C16: the error of a rejected tree names, by its id, the first entry in the
\* order of the file that is invalid, and the field that is missing or invalid;
\* when the fault is in a child the error names the child together with the
\* parent entry.
C16_ValidationErrorNamesFirstOffender ==
    EntryRejected =>
        LET i == FirstOffender(list)
            node == list.items[i].val
        IN  /\ err.cls = "FigError"
            /\ err.id = list.items[i].key
            /\ IF err.sub = NoName
               THEN BadField(node, err.field)
               ELSE /\ IsMulti(node) /\ IsDict(Get(node, "figures"))
                    /\ \E j \in 1..Len(Get(node, "figures").items) :
                          /\ Get(node, "figures").items[j].key = err.sub
                          /\ BadField(Get(node, "figures").items[j].val, err.field)

\* the first entry has a child without a type, the second entry is invalid
\* too, and the error names the first entry and its child
C16_Witness ==
    /\ EntryRejected
    /\ Len(list.items) = 2
    /\ ~EntryOk(list.items[2].val)
    /\ err.id = list.items[1].key
    /\ err.sub # NoName
    /\ err.field = "type"

-----------------------------------------------------------------------------
(* Properties of 'row' and 'column' at use time (SpecGrid).                *)

\* a JSON integer: a number without fraction; true and false are no numbers
IsJsonInteger(v) == v.k = "int"

\* the build has come to the entry at position i and has dealt with it
Used(i) ==
    /\ Building
    /\ FullBuild \/ target = list.items[i].key
    /\ \/ pos > i
       \/ pos = i /\ (pc = "multi" \/ Done)

\* every entry before position i has been rendered: a simple entry by its
\* renderer, a multi entry by the concatenation of its grid
PrecedingRendered(i) ==
    \A m \in 1..(i - 1) :
        \E k \in 1..Len(calls) : calls[k].at = <<m, 0>> /\ calls[k].outcome # "raises"

\* the build was refused at the entry at position i, before anything of it ran
RefusedAt(i) ==
    /\ Done
    /\ pos = i
    /\ err.cls = "FigError"
    /\ err.msg = "'row' and 'column' must be integers"
    /\ err.id = list.items[i].key
    /\ \A k \in 1..Len(calls) : calls[k].at[1] # i

\* C17 as stated: a multi entry whose 'row' or 'column' is present and is not
\* an integer is loaded, and a build that comes to it fails with an error
\* naming the entry, before a child is rendered or a grid concatenated, the
\* entries before it having been rendered in a full build.
C17_Original_NonIntegerRefusedAtUse ==
    \A i \in MultiPositions :
        (/\ ~IsJsonInteger(Get(list.items[i].val, "row"))
               \/ ~IsJsonInteger(Get(list.items[i].val, "column"))
         /\ Used(i))
        => /\ hist.valid
           /\ RefusedAt(i)
           /\ FullBuild => PrecedingRendered(i)

\* what the code does: the same for every value that Python does not take
\* for an int; true and false are ints to isinstance and are let through
C17_NonPythonIntRefusedAtUse ==
    \A i \in MultiPositions :
        Used(i) =>
            IF IsInt(Get(list.items[i].val, "row")) /\ IsInt(Get(list.items[i].val, "column"))
            THEN ~RefusedAt(i)
            ELSE /\ hist.valid
                 /\ RefusedAt(i)
                 /\ FullBuild => PrecedingRendered(i)

-----------------------------------------------------------------------------
(* Properties of the dynamic addresses (SpecResolve).  Module m can be     *)
(* imported, m.f is a function, m.g is a constant, m has no other          *)
(* attribute; module x cannot be imported.                                 *)

\* the caller asked for an address that is neither registered nor a plugin
AddressAsked ==
    /\ Resolved
    /\ hist.asked \in {"m:f", "m:g", "m:h", "x:f", "m:f:z"}
    /\ ~HasKey(function, hist.asked)
    /\ ~HasKey(eps.map, hist.asked)

ImportFailed ==
    /\ hist.got = NoRenderer
    /\ err.cls = "FigError"
    /\ err.msg = "Failed to import renderer"
    /\ err.type = hist.asked

\* C18 (as amended): a type name with the separator that has no registration
\* and no plugin is split at the first separator into module and attribute;
\* the attribute is returned if it is callable; resolve fails with a
\* resolution error if the module cannot be loaded or the attribute is
\* missing; if the attribute is not callable resolve returns "not found" and
\* raises nothing.
C18_DynamicAddress ==
    AddressAsked =>
        CASE hist.asked = "m:f" -> hist.got = Renderer("import", "m:f") /\ err = NoErr
          [] hist.asked = "m:g" -> hist.got = NoRenderer /\ err = NoErr
          [] hist.asked \in {"m:h", "x:f", "m:f:z"} -> ImportFailed

\* m.g was asked for while a plugin of that name fails to load: the plugins
\* were enumerated, the module imported, and the constant not returned
C18_Witness ==
    /\ AddressAsked
    /\ hist.asked = "m:g"
    /\ eps.loaded /\ eps.n = 1
    /\ hist.got = NoRenderer
    /\ err = NoErr

\* C18 as stated: ... and resolve fails with a resolution error also when the
\* attribute is not callable.
C18_Original_NotCallableFails ==
    AddressAsked =>
        CASE hist.asked = "m:f" -> hist.got = Renderer("import", "m:f") /\ err = NoErr
          [] hist.asked \in {"m:g", "m:h", "x:f", "m:f:z"} -> ImportFailed

-----------------------------------------------------------------------------
(* Properties of nested multi blocks (SpecNested).                         *)

\* the children, of type "multi", of the multi entries
NestedAt ==
    {at \in Range(InsertionOrder) : at[2] > 0 /\ TypeAt(at) = "multi"}

\* what is in the 'figures' of such children
NestedIds ==
    UNION {{Get(NodeAt(at).val, "figures").items[j].key :
               j \in 1..Len(Get(NodeAt(at).val, "figures").items)} : at \in NestedAt}

\* no figure of a nested block is rendered and no grid is concatenated for
\* the block
NeverExpanded ==
    \A k \in 1..Len(calls) :
        /\ calls[k].op = "render" => calls[k].id \notin NestedIds
        /\ calls[k].op = "concat" =>
              /\ calls[k].at[2] = 0
              /\ \A at \in NestedAt : calls[k].output_file # FigPdf(IdAt(at))

\* C19 as stated: a child whose type is "multi" is never expanded, and a tree
\* with such a child never builds successfully.
C19_Original_NestedNeverBuilds ==
    (Building /\ pc \in {"idle", "top", "multi"} /\ list # NoList) =>
        /\ NeverExpanded
        /\ (Succeeded /\ FullBuild) => NestedAt = {}

\* what the code does: the block is never expanded; the full build fails at
\* the child unless a renderer is registered under the name "multi", which is
\* then invoked for the child as for any simple figure
C19_NestedBuildsOnlyAsSimpleFigure ==
    (Building /\ pc \in {"idle", "top", "multi"} /\ list # NoList) =>
        /\ NeverExpanded
        /\ (Succeeded /\ FullBuild) =>
              \A at \in NestedAt :
                  /\ HasKey(function, "multi")
                  /\ \E k \in 1..Len(calls) :
                        /\ calls[k].op = "render" /\ calls[k].at = at
                        /\ calls[k].by = Lookup(function, "multi")

-----------------------------------------------------------------------------
(* The ResultsMap of repeated builds (Spec).                               *)

\* the entry was written by the build in progress or just ended: it is what
\* a renderer, called in this build for the id and returning, gave back
WrittenByThisBuild(p) ==
    \E k \in 1..Len(calls) :
        /\ calls[k].op = "render"
        /\ calls[k].id = p.key
        /\ calls[k].outcome # "raises"
        /\ p.val = Returned(calls[k].by, p.key, k)

\* C20: after any sequence of builds on one instance, full or single-target,
\* succeeding or failing, the ResultsMap holds only entries written by the
\* most recent build, and no key of an earlier build is left in it.
C20_ResultsOfTheLastBuildOnly ==
    Building => \A p \in result : WrittenByThisBuild(p)

\* a single-target build of entry "1" has ended, after an earlier build that
\* rendered entry "2" and wrote its artifact: the results hold "1" alone
C20_Witness ==
    /\ Done
    /\ SingleTargetBuild
    /\ Len(list.items) = 2
    /\ target = list.items[1].key
    /\ TypeAt(<<2, 0>>) # "multi"
    /\ FigPdf(list.items[2].key) \in fs
    /\ KeySet(result) = {target}

-----------------------------------------------------------------------------
(* One id in two scopes (SpecCollide).                                     *)

\* the figures with the id, in the order of the file
ScopesOf(id) == SelectSeq(InsertionOrder, LAMBDA at : IdAt(at) = id)

\* the ids that two figures of the tree have
CollidingIds == {id \in RenderedIds : Len(ScopesOf(id)) > 1}

\* the figure was rendered and its result merged: the build is past its entry
Merged(at) == Passed(at[1])

\* C21: an id used in two scopes does not make the build fail (a full build
\* in which every renderer and concatenation wrote its file succeeds); once
\* the results of both figures are merged, both renderers have been invoked,
\* in the order of the file, and the ResultsMap holds for the id the value
\* returned by the renderer of the later figure.
C21_CollisionOverwritesSilently ==
    /\ (Done /\ FullBuild /\ AllWrote) => Succeeded
    /\ \A id \in CollidingIds :
          LET first == ScopesOf(id)[1]
              later == ScopesOf(id)[2]
          IN  (Building /\ Merged(first) /\ Merged(later)) =>
                 \E k1, k2 \in 1..Len(calls) :
                     /\ k1 < k2
                     /\ calls[k1].op = "render" /\ calls[k1].at = first
                     /\ calls[k1].by = Lookup(function, TypeAt(first))
                     /\ calls[k2].op = "render" /\ calls[k2].at = later
                     /\ calls[k2].by = Lookup(function, TypeAt(later))
                     /\ calls[k1].by # calls[k2].by
                     /\ Lookup(result, id) = Returned(calls[k2].by, id, k2)

\* a full build of two multi entries whose children share their id has
\* succeeded: one entry in the ResultsMap, two renderer calls
C21_Witness ==
    /\ Succeeded /\ FullBuild
    /\ MultiPositions = {1, 2}
    /\ CollidingIds # {}
    /\ Cardinality(result) = 1
    /\ Len(Renders) = 2

-----------------------------------------------------------------------------
(* The children's results enter the ResultsMap with the composition (Spec). *)

\* the call of a renderer that returned the value
CallOf(p) == p.val.n

\* the grid concatenation of entry i returned after the k-th call
ComposedAfter(i, k) ==
    \E m \in (k + 1)..Len(calls) :
        calls[m].op = "concat" /\ calls[m].at = <<i, 0>> /\ calls[m].outcome # "raises"

\* the build failed inside the multi entry at position i: at the check of
\* its grid, at a child, or at the grid concatenation
FailedInside(i) ==
    /\ Done /\ err # NoErr
    /\ pos = i
    /\ i \in MultiPositions
    /\ FullBuild \/ target = list.items[i].key
    /\ \A m \in 1..Len(calls) : ~ComposedAfter(i, m - 1)

\* the figures of the entries before position i
FiguresBefore(i) == {at \in Range(InsertionOrder) : at[1] < i}

\* C22: at every point of a build, every value in the ResultsMap that a
\* renderer returned for a child of a multi entry is there only after the grid
\* concatenation of that entry returned; when the build has failed inside a
\* multi entry, no value returned for one of its children is in the
\* ResultsMap, and (in a full build) the ResultsMap has exactly the ids of the
\* figures of the earlier entries, each with a value returned for such a figure.
C22_ChildrenEnterWithTheComposition ==
    Building =>
        /\ \A p \in result :
              /\ CallOf(p) \in 1..Len(calls)
              /\ calls[CallOf(p)].op = "render"
              /\ calls[CallOf(p)].at[2] > 0 => ComposedAfter(calls[CallOf(p)].at[1], CallOf(p))
        /\ \A i \in 1..Len(list.items) :
              FailedInside(i) =>
                 /\ \A p \in result : calls[CallOf(p)].at[1] # i
                 /\ FullBuild => KeySet(result) = {IdAt(at) : at \in FiguresBefore(i)}
                 /\ ~FullBuild => result = {}

\* a full build has failed at the second child of its second entry, after
\* the first child was rendered: the ResultsMap holds the first entry alone
C22_Witness ==
    /\ Done /\ FullBuild
    /\ Len(list.items) = 2
    /\ FailedInside(2)
    /\ StoppedAt = <<2, 2>>
    /\ \E k \in 1..Len(calls) : calls[k].at = <<2, 1>> /\ calls[k].outcome = "writes"
    /\ KeySet(result) = {list.items[1].key}

-----------------------------------------------------------------------------
(* A target that is no top-level id (Spec).                                *)

\* the ids of the children of the multi entries
ChildIds == {IdAt(at) : at \in {a \in Range(InsertionOrder) : a[2] > 0}}

\* nothing was rendered, nothing concatenated, nothing kept
NothingDone == calls = <<>> /\ result = {} /\ fig_files = <<>>

\* C23 (as amended): a build requested for a non-empty target id that is not
\* a top-level key of the tree, an id that only a child of a multi entry has
\* included, invokes no renderer, never calls the concatenation, leaves the
\* ResultsMap empty and ends with the empty-output error.
C23_UnknownTargetProducesNothing ==
    (Building /\ target # None /\ target # "" /\ target \notin TopKeys) =>
        /\ NothingDone
        /\ Done => EmptyOutput

\* the build of a target that is the id of a child only has ended, in a tree
\* whose figures all have renderers
C23_Witness ==
    /\ Done
    /\ target \in ChildIds \ TopKeys
    /\ AllResolve
    /\ EmptyOutput
    /\ result = {}

\* C23 as stated: every build requested for a target id that is not a
\* top-level key, the empty id included, produces nothing and ends with the
\* empty-output error.
C23_Original_EveryUnknownTarget ==
    (Building /\ target # None /\ target \notin TopKeys) =>
        /\ NothingDone
        /\ Done => EmptyOutput

-----------------------------------------------------------------------------
(* The pages handed to the concatenation were checked (Spec).              *)

\* the page list has one more path at its end
Grew(old, new) == Len(new) = Len(old) + 1 /\ SubSeq(new, 1, Len(old)) = old

\* the step made a call, the last of the log
Called == Len(calls') = Len(calls) + 1 /\ SubSeq(calls', 1, Len(calls)) = calls

\* the path enters a page list in the step in which the call that is to write
\* it (the renderer of the figure, the grid concatenation of the entry)
\* returned, and the file is there at that moment
CheckedOnEntry(old, new) ==
    /\ Grew(old, new)
    /\ Called
    /\ calls'[Len(calls')].output_file = new[Len(new)]
    /\ calls'[Len(calls')].outcome # "raises"
    /\ new[Len(new)] \in fs'

\* a page list changes by being emptied or by taking a checked path; the
\* concatenation is handed the page list as it is, the children's for a grid
\* and the top-level one for the final deliverable
C24_Step ==
    /\ (fig_files' # fig_files /\ fig_files' # <<>>) => CheckedOnEntry(fig_files, fig_files')
    /\ (sub'.fig_files # sub.fig_files /\ sub'.fig_files # <<>>) =>
          CheckedOnEntry(sub.fig_files, sub'.fig_files)
    /\ (Called /\ calls'[Len(calls')].op = "concat") =>
          calls'[Len(calls')].input_files =
              (IF calls'[Len(calls')].output_file = OutFile THEN fig_files ELSE sub.fig_files)

\* C24: every path handed to the concatenation, the children's pages of a
\* grid and the page list of the final deliverable, entered its page list
\* only with the check that the file exists, made after the renderer or the
\* composition that is to write it returned and before the concatenation
\* is called.
C24_PagesCheckedBeforeConcatenation == [][C24_Step]_vars

\* a full build has made its final concatenation of two pages, one of them
\* the combined page of a grid of one child
C24_Witness ==
    /\ Done /\ FullBuild
    /\ Len(list.items) = 2
    /\ Len(Concats) = 2
    /\ Len(Concats[1].input_files) = 1
    /\ Concats[2].input_files = <<FigPdf(list.items[1].key), FigPdf(list.items[2].key)>>
    /\ \A path \in Range(Concats[2].input_files) : path \in fs

-----------------------------------------------------------------------------
(* Loading again on an existing instance (SpecReload).                     *)

\* the step is a load_json() of the caller on the instance
Reloads == pc = "idle" /\ hist'.op = "load"

C25_Step ==
    Reloads =>
        IF file = Missing
        THEN list' = list /\ err'.msg = "JSON file does not exist"
        ELSE IF ~JsonLoad(file).ok
        THEN list' = list /\ err'.msg = "Failed to parse JSON"
        ELSE /\ list' = JsonLoad(file).v
             /\ err' = ValidateJson(JsonLoad(file).v)

\* C25: load_json on an existing instance leaves the tree in memory as it was
\* when it fails because the file is missing or is no JSON; when the parsed
\* content violates the schema the tree in memory is the parsed, invalid
\* content and the validation error is raised; a valid file replaces the tree.
C25_ReloadFailureAndTheTree == [][C25_Step]_vars

\* a load on the instance has failed in validation: the tree in memory is the
\* invalid content of the file (a constructed instance starts with a valid
\* tree), with an entry that validation accepted before the offender
C25_Witness ==
    /\ pc = "idle"
    /\ hist.op = "load"
    /\ err # NoErr
    /\ JsonLoad(file).ok
    /\ list = JsonLoad(file).v
    /\ IsDict(list)
    /\ Len(list.items) = 2
    /\ ValidateJson(list) # NoErr

-----------------------------------------------------------------------------
(* Termination of a build (SpecTerminating).                               *)

\* create_pdf is in its loop or in multi()
Running == pc \in {"top", "multi"}

\* the renderer calls for the figure at a position
RendersAt(at) == {k \in 1..Len(calls) : calls[k].op = "render" /\ calls[k].at = at}

\* no figure is rendered twice, no renderer is called for anything but a
\* simple entry or a child, and a build that has an error has stopped
RendersOnceAndStops ==
    /\ \A at \in Range(InsertionOrder) : Cardinality(RendersAt(at)) <= 1
    /\ \A k \in 1..Len(calls) : calls[k].op = "render" => calls[k].at \in Range(InsertionOrder)
    /\ (Building /\ err # NoErr) => pc = "idle"

\* C26: every call of a renderer or of the collaborator returning, every build
\* that is started ends, in success or with the one error that stopped it,
\* after at most one renderer call for each top-level simple entry and each
\* child of a multi entry.
C26_BuildTerminates == []RendersOnceAndStops /\ (Running ~> Done)

\* a build has ended after one renderer call for each of its figures, the two
\* children of a multi entry
C26_Witness ==
    /\ Done
    /\ Len(InsertionOrder) = 2
    /\ \A at \in Range(InsertionOrder) : Cardinality(RendersAt(at)) = 1
    /\ \E i \in MultiPositions : Len(Figures(i).items) = 2

=============================================================================
